---- MODULE Spec2Model ----
(***************************************************************************)
(* Model of the Lunoa quest lifecycle controller (quests.controller.ts):   *)
(* joinQuest, completeQuest and verifyQuestCompletion running as           *)
(* concurrent request handlers against one PostgreSQL database.  Every     *)
(* `await` of a database round trip is one step of a handler, so handlers  *)
(* interleave exactly where the Node.js event loop lets them.              *)
(*                                                                         *)
(* The database is modelled as the code uses it: `pool.query` statements   *)
(* autocommit, `client.query('BEGIN')` opens a transaction at the default  *)
(* isolation level (READ COMMITTED): every statement reads the rows        *)
(* committed so far plus the transaction's own writes, an UPDATE waits for *)
(* a concurrent writer of the same row and then applies to the row as last *)
(* committed, and writes become visible to others at COMMIT.               *)
(***************************************************************************)
EXTENDS Integers, FiniteSets, Bags, Sequences, TLC

\* ---- bounds ----
NumProcs == 2        \* request handlers that may be in flight at once
MaxQuests == 1       \* quests that may be created (ids 1..MaxQuests)
VerifyQuests == 2    \* quests on offer when only verifications run (SpecVerify)
MaxChainQuests == 2  \* create_quest transactions that may execute (SpecChain)
QuestRows == 2       \* quest ids on offer in the catalogue (SpecCatalogue)
MaxLifecycle == 1    \* joins, submissions and verifications in flight at once
                     \* while the quest is maintained (SpecQuests)

\* ---- identities and inputs ----
Procs == 1..NumProcs
Users == {"u1", "u2"}
NoUser == "anonymous"          \* req.user undefined / participantId missing
Proofs == {"pA", "pB"}
NoProof == "noproof"           \* proofOfCompletion missing or not a string
NoRow == [rowCount |-> 0]      \* rows.length === 0
NoStatus == "none"             \* no status read yet / no row
NoAddress == "noaddress"       \* aptos_address is null
NoWrite == [written |-> 0]     \* the transaction has updated no row
NoTitle == "notitle"           \* no update data in the request body
Titles == {"t0", "t1"}         \* values of a field updateQuest may set
Deleted == [rowCount |-> 0, deleted |-> TRUE]  \* a quest row that was deleted:
                               \* its id is not given out again by the sequence

\* quests.status and whether quests.expires_at has passed
QuestStatuses == {"active", "completed", "expired"}
Expiries == {"future", "past"}

\* quests.status of a row inserted without a status
DefaultQuestStatus == "active"

\* id of the 'First Quest Completed' achievement
achievementId == 1

\* quests.reward_amount as node-postgres returns it: the decimal text of the
\* column, a sequence of digits
RewardAmountText == <<5, 0, 0, 0, 0, 0>>
OtherRewardAmountText == <<1, 0, 0>>

\* the number OtherRewardAmountText stands for
OtherRewardAmount == 100

\* the number RewardAmountText stands for
RewardAmount == 500000

\* parseInt(text, 10) of a text made of decimal digits
RECURSIVE parseDigits(_, _)
parseDigits(text, acc) ==
  IF text = <<>> THEN acc ELSE parseDigits(Tail(text), acc * 10 + Head(text))

\* mutant: the reward is a fixed value, whatever the quest's row holds
parseIntMut(text) == RewardAmount

parseInt(text) == parseDigits(text, 0)

\* users.aptos_address: u1 has linked an address, u2 has not
aptos_address(u) == IF u = "u1" THEN "0xAA" ELSE NoAddress

VARIABLES
  quests,        \* table quests: id -> NoRow | Deleted |
                 \* [creator_id, reward_amount, title, status, expires_at]
  participants,  \* table quest_participants: <<quest_id, user_id>> -> NoRow |
                 \* [status, proof, rows], rows being the number of rows with that key
  activities,    \* table user_activities, a bag of [user_id, activity_type, questId]
                 \* (questId stands for the metadata column; 0 for an achievement)
  achievements,  \* table user_achievements, a bag of <<user_id, achievement_id>>
  dispatches,    \* calls made to AptosService.distributeQuestRewards, a bag of
                 \* [address, amount] tagged with the verification that made the call
  proc,          \* the request handlers in flight, one record per slot
  quest_store,   \* the QuestStore resource of the Move module LunoaQuests::quests
  txn            \* the last transaction sent to the module and its abort code

vars == <<quests, participants, activities, achievements, dispatches, proc,
          quest_store, txn>>

\* the on-chain state, which no request handler of the backend touches
chainVars == <<quest_store, txn>>

\* the quest ids the quests table has room for
QuestIds == DOMAIN quests

Pairs == QuestIds \X Users

\* a handler slot with no request in it
IdleProc ==
  [pc |-> "idle", op |-> "none", user |-> NoUser, id |-> 0, proof |-> NoProof,
   participantId |-> NoUser, questCreatorId |-> NoUser, rewardAmount |-> 0,
   participantStatus |-> NoStatus, title |-> NoTitle,
   outcome |-> "none", faulted |-> FALSE, client |-> "none", transaction |-> "none",
   txUpdate |-> NoWrite, txActivities |-> EmptyBag, txGrant |-> FALSE,
   verifiedQuestsCount |-> 0, existingAchievement |-> FALSE,
   committed |-> FALSE, granted |-> FALSE, distributed |-> "none"]

\* no transaction has been sent to the module yet
NoTxn == [function |-> "none", sender |-> "none", quest_id |-> 0, abort_code |-> 0]

\* init_module: the QuestStore published with the module
init_module ==
  [quests |-> <<>>, next_quest_id |-> 0, quest_created_events |-> <<>>,
   quest_joined_events |-> <<>>, quest_completed_events |-> <<>>]

Init ==
  /\ quests = [q \in 1..MaxQuests |-> NoRow]
  /\ participants = [k \in (1..MaxQuests) \X Users |-> NoRow]
  /\ activities = EmptyBag
  /\ achievements = EmptyBag
  /\ dispatches = EmptyBag
  /\ proc = [p \in Procs |-> IdleProc]
  /\ quest_store = init_module
  /\ txn = NoTxn

\* ---- helpers ----

\* the lowest free slot takes the next request (slots are interchangeable)
FreeSlot(p) ==
  /\ proc[p].pc = "idle"
  /\ \A o \in Procs : o < p => proc[o].pc # "idle"

StatusOf(row) == IF row = NoRow THEN NoStatus ELSE row.status

\* the rows of SELECT ... FROM quests WHERE id = q
SelectQuest(q) == IF quests[q] = Deleted THEN NoRow ELSE quests[q]

\* a row of the quests table
QuestRow(creator, reward, title, status, expires_at) ==
  [creator_id |-> creator, reward_amount |-> reward, title |-> title,
   status |-> status, expires_at |-> expires_at]

\* the row <<q, u>> as transaction p reads it: its own write, else the committed row
ReadParticipant(p, q, u) ==
  IF proc[p].txUpdate # NoWrite /\ proc[p].id = q /\ proc[p].participantId = u
  THEN proc[p].txUpdate
  ELSE participants[<<q, u>>]

\* another transaction holds the row lock on <<q, u>> (an uncommitted UPDATE)
RowLockedByOther(p, q, u) ==
  \E o \in Procs \ {p} :
    /\ proc[o].txUpdate # NoWrite
    /\ proc[o].id = q
    /\ proc[o].participantId = u

Set(p, r) == proc' = [proc EXCEPT ![p] = r]

\* a new request enters slot p
Begin(p, op, user, id, proof, participantId) ==
  [IdleProc EXCEPT !.op = op, !.user = user, !.id = id, !.proof = proof,
                   !.participantId = participantId]

\* res.status(..).json(..) with no connection held
Respond(r, outcome) == [r EXCEPT !.pc = "done", !.outcome = outcome]

\* ---- createQuest ----

\* quest ids not yet taken by a row or by an INSERT in flight
FreeQuestIds ==
  Cardinality({q \in QuestIds : quests[q] = NoRow})
    - Cardinality({o \in Procs : proc[o].pc = "insertQuest"})

\* createQuest up to its INSERT: the schema validation and the req.user check
createQuest(p) ==
  /\ FreeSlot(p)
  /\ FreeQuestIds > 0
  /\ \E u \in Users \cup {NoUser}, valid \in BOOLEAN :
       LET r == Begin(p, "createQuest", u, 0, NoProof, NoUser) IN
       IF ~valid THEN
         /\ Set(p, Respond(r, "ValidationError"))
         /\ UNCHANGED <<quests, participants, activities, achievements, dispatches>>
       ELSE IF u = NoUser THEN
         /\ Set(p, Respond(r, "Unauthorized"))
         /\ UNCHANGED <<quests, participants, activities, achievements, dispatches>>
       ELSE
         /\ Set(p, [r EXCEPT !.pc = "insertQuest"])
         /\ UNCHANGED <<quests, participants, activities, achievements, dispatches>>
  /\ UNCHANGED chainVars

\* the INSERT ... RETURNING * of createQuest, answered 201; ids come from the
\* table's sequence; a failing INSERT is answered 500
createQuestInsert(p) ==
  /\ proc[p].op = "createQuest"
  /\ proc[p].pc = "insertQuest"
  /\ \E fails \in BOOLEAN :
       IF fails
       THEN /\ Set(p, [Respond(proc[p], "InternalError") EXCEPT !.faulted = TRUE])
            /\ UNCHANGED quests
       ELSE \E q \in QuestIds :
              /\ quests[q] = NoRow
              /\ \A o \in QuestIds : o < q => quests[o] # NoRow
              /\ quests' = [quests EXCEPT ![q] =
                               QuestRow(proc[p].user, RewardAmountText, "t0",
                                        DefaultQuestStatus, "future")]
              /\ Set(p, [Respond(proc[p], "Success") EXCEPT !.id = q, !.committed = TRUE])
  /\ UNCHANGED <<participants, activities, achievements, dispatches>>
  /\ UNCHANGED chainVars

\* ---- joinQuest ----

\* mutant: the req.user check is missing
joinQuestMut(p) ==
  /\ FreeSlot(p)
  /\ \E u \in Users \cup {NoUser}, q \in QuestIds :
       Set(p, [Begin(p, "joinQuest", u, q, NoProof, u) EXCEPT !.pc = "selectQuest"])
  /\ UNCHANGED <<quests, participants, activities, achievements, dispatches>>
  /\ UNCHANGED chainVars

\* joinQuest up to its first await: the req.user check
joinQuest(p) ==
  /\ FreeSlot(p)
  /\ \E u \in Users \cup {NoUser}, q \in QuestIds :
       LET r == Begin(p, "joinQuest", u, q, NoProof, u) IN
       IF u = NoUser
       THEN Set(p, Respond(r, "Unauthorized"))
       ELSE Set(p, [r EXCEPT !.pc = "selectQuest"])
  /\ UNCHANGED <<quests, participants, activities, achievements, dispatches>>
  /\ UNCHANGED chainVars

\* mutant: the self-join guard is missing
joinQuestIsCreatorMut(creator_id, authenticatedUserId) == FALSE

\* the self-join guard: questResult.rows[0].creator_id === authenticatedUserId
joinQuestIsCreator(creator_id, authenticatedUserId) == creator_id = authenticatedUserId

\* mutant: the quest-exists guard is missing; reading creator_id of no row
\* throws and the catch block answers 500
joinQuestSelectMut(p) ==
  /\ proc[p].op = "joinQuest"
  /\ proc[p].pc = "selectQuest"
  /\ LET r == proc[p]
         questResult == SelectQuest(r.id) IN
       IF questResult = NoRow
       THEN Set(p, Respond(r, "InternalError"))
       ELSE IF joinQuestIsCreator(questResult.creator_id, r.user)
       THEN Set(p, Respond([r EXCEPT !.questCreatorId = questResult.creator_id],
                           "InvalidOperation"))
       ELSE Set(p, [r EXCEPT !.pc = "insertParticipant",
                             !.questCreatorId = questResult.creator_id])
  /\ UNCHANGED <<quests, participants, activities, achievements, dispatches>>
  /\ UNCHANGED chainVars

\* mutant: a quest that is not active, or has expired, cannot be joined
joinQuestSelectActiveMut(p) ==
  /\ proc[p].op = "joinQuest"
  /\ proc[p].pc = "selectQuest"
  /\ LET r == proc[p]
         questResult == SelectQuest(r.id) IN
       IF questResult = NoRow
       THEN Set(p, Respond(r, "NotFound"))
       ELSE IF joinQuestIsCreator(questResult.creator_id, r.user)
       THEN Set(p, Respond([r EXCEPT !.questCreatorId = questResult.creator_id],
                           "InvalidOperation"))
       ELSE IF questResult.status # "active" \/ questResult.expires_at = "past"
       THEN Set(p, Respond([r EXCEPT !.questCreatorId = questResult.creator_id],
                           "InvalidState"))
       ELSE Set(p, [r EXCEPT !.pc = "insertParticipant",
                             !.questCreatorId = questResult.creator_id])
  /\ UNCHANGED <<quests, participants, activities, achievements, dispatches>>
  /\ UNCHANGED chainVars

\* SELECT creator_id FROM quests WHERE id = $1, then the two guards
joinQuestSelect(p) ==
  /\ proc[p].op = "joinQuest"
  /\ proc[p].pc = "selectQuest"
  /\ LET r == proc[p]
         questResult == SelectQuest(r.id) IN
       IF questResult = NoRow
       THEN Set(p, Respond(r, "NotFound"))
       ELSE IF joinQuestIsCreator(questResult.creator_id, r.user)
       THEN Set(p, Respond([r EXCEPT !.questCreatorId = questResult.creator_id],
                           "InvalidOperation"))
       ELSE Set(p, [r EXCEPT !.pc = "insertParticipant",
                             !.questCreatorId = questResult.creator_id])
  /\ UNCHANGED <<quests, participants, activities, achievements, dispatches>>
  /\ UNCHANGED chainVars

\* quest_participants.status of a row inserted without a status
DefaultStatus == "joined"

\* error code of INSERT INTO quest_participants: the table's unique
\* constraint on (quest_id, user_id) raises 23505 when the row exists
InsertParticipantError(q, u) ==
  IF participants[<<q, u>>] # NoRow THEN "23505" ELSE "ok"

\* error codes the INSERT may meet because its quest is gone: 23503 if
\* quest_participants.quest_id references quests(id), none if it does not
ForeignKeyError(q) == IF SelectQuest(q) = NoRow THEN {"23503"} ELSE {}

\* mutant: the catch block takes every data-layer error for a double join
joinQuestCatchAnyMut(code) == "Conflict"

\* mutant: the catch block does not tell the unique violation apart
joinQuestCatchMut(code) == "InternalError"

\* the catch block of joinQuest: 23505 is a 409, anything else a 500
joinQuestCatch(code) ==
  IF code = "23505" THEN "Conflict" ELSE "InternalError"

\* INSERT INTO quest_participants (quest_id, user_id), then 200 or the catch
\* block; the status column takes its default, 'joined'
joinQuestInsert(p) ==
  /\ proc[p].op = "joinQuest"
  /\ proc[p].pc = "insertParticipant"
  /\ \E code \in {InsertParticipantError(proc[p].id, proc[p].user)}
                     \cup ForeignKeyError(proc[p].id) :
       LET r == proc[p] IN
       IF code = "ok"
       THEN /\ participants' = [participants EXCEPT ![<<r.id, r.user>>] =
                                   IF @ = NoRow
                                   THEN [status |-> DefaultStatus, proof |-> NoProof, rows |-> 1]
                                   ELSE [@ EXCEPT !.rows = @ + 1]]
            /\ Set(p, [Respond(r, "Success") EXCEPT !.committed = TRUE])
       ELSE /\ UNCHANGED participants
            /\ Set(p, Respond(r, joinQuestCatch(code)))
  /\ UNCHANGED <<quests, activities, achievements, dispatches>>
  /\ UNCHANGED chainVars

\* a pool.query of joinQuest fails with a data-layer error other than 23505
joinQuestFails(p) ==
  /\ proc[p].op = "joinQuest"
  /\ proc[p].pc \in {"selectQuest", "insertParticipant"}
  /\ Set(p, [Respond(proc[p], joinQuestCatch("08006")) EXCEPT !.faulted = TRUE])
  /\ UNCHANGED <<quests, participants, activities, achievements, dispatches>>
  /\ UNCHANGED chainVars

\* ---- transactions on a pooled client ----
\* A handler is cut into steps at the awaits whose statement reads or writes
\* rows other handlers can see or lock; the awaits in between (pool.connect,
\* BEGIN, an INSERT into the append-only log, the ROLLBACK of a transaction
\* that wrote nothing) touch nothing shared and belong to the step they follow.

\* the writes of a transaction are dropped (ROLLBACK, or the session ends)
Discard(r) == [r EXCEPT !.txUpdate = NoWrite, !.txActivities = EmptyBag, !.txGrant = FALSE]

\* finally { client.release() } followed by the end of the handler
Finish(r, outcome) == [r EXCEPT !.pc = "done", !.outcome = outcome, !.client = "released"]

\* catch (dbError) { await client.query('ROLLBACK'); res.status(500) }; when
\* that ROLLBACK throws too, finally releases the client, the handler's
\* promise rejects and no response is written
CatchBlock(r, rollbackOk) ==
  IF rollbackOk
  THEN [Finish(Discard(r), "InternalError") EXCEPT !.transaction = "rolledback"]
  ELSE Finish(Discard(r), "NoResponse")

\* data-layer failures a step may meet
Faults == {"none", "query", "queryAndRollback"}

\* await client.query('ROLLBACK'); return res.status(..) on a failed guard;
\* a ROLLBACK that throws lands in the catch block
GuardFailed(r, outcome, fault) ==
  IF fault = "none" THEN [Finish(r, outcome) EXCEPT !.transaction = "rolledback"]
  ELSE [CatchBlock(r, fault = "query") EXCEPT !.faulted = TRUE]

\* const client = await pool.connect(); await client.query('BEGIN').
\* pool.connect is awaited outside the try block: when it rejects no response
\* is written; a failing BEGIN lands in the catch block
Connect(r, next, fault) ==
  CASE fault = "none" -> [r EXCEPT !.pc = next, !.client = "held", !.transaction = "open"]
    [] fault = "connect" -> [Respond(r, "NoResponse") EXCEPT !.faulted = TRUE]
    [] OTHER -> [CatchBlock([r EXCEPT !.client = "held"], fault = "query") EXCEPT
                   !.faulted = TRUE]

\* a client.query inside the try block throws: the catch block runs
QueryFails(p, pcs) ==
  /\ proc[p].pc \in pcs
  /\ \E rollbackOk \in BOOLEAN :
       Set(p, [CatchBlock(proc[p], rollbackOk) EXCEPT !.faulted = TRUE])
  /\ UNCHANGED <<quests, participants, activities, achievements, dispatches>>

\* the tables after COMMIT of the transaction whose handler record is r
CommitParticipants(r) ==
  IF r.txUpdate = NoWrite THEN participants
  ELSE [participants EXCEPT ![<<r.id, r.participantId>>] = r.txUpdate]

\* mutant: the COMMIT leaves the grant out
CommitAchievementsMut(r) == achievements

CommitAchievements(r) ==
  IF r.txGrant THEN achievements (+) SetToBag({<<r.participantId, achievementId>>})
  ELSE achievements

\* ---- completeQuest ----

\* mutant: the proof check is missing
completeQuestMut(p) ==
  /\ FreeSlot(p)
  /\ \E u \in Users \cup {NoUser}, q \in QuestIds, proof \in Proofs \cup {NoProof},
        fault \in Faults \cup {"connect"} :
       LET r == Begin(p, "completeQuest", u, q, proof, u) IN
       IF u = NoUser THEN fault = "none" /\ Set(p, Respond(r, "Unauthorized"))
       ELSE Set(p, Connect(r, "selectParticipant", fault))
  /\ UNCHANGED <<quests, participants, activities, achievements, dispatches>>
  /\ UNCHANGED chainVars

\* completeQuest up to its first query: the req.user and proof checks,
\* pool.connect and BEGIN
completeQuest(p) ==
  /\ FreeSlot(p)
  /\ \E u \in Users \cup {NoUser}, q \in QuestIds, proof \in Proofs \cup {NoProof},
        fault \in Faults \cup {"connect"} :
       LET r == Begin(p, "completeQuest", u, q, proof, u) IN
       IF u = NoUser THEN fault = "none" /\ Set(p, Respond(r, "Unauthorized"))
       ELSE IF proof = NoProof THEN fault = "none" /\ Set(p, Respond(r, "ValidationError"))
       ELSE Set(p, Connect(r, "selectParticipant", fault))
  /\ UNCHANGED <<quests, participants, activities, achievements, dispatches>>
  /\ UNCHANGED chainVars

\* mutant: the guard rejects only a verified participant
completeQuestGuardMut(participantStatus) == participantStatus = "verified"

\* the status guard of completeQuest: only 'joined' may submit
completeQuestGuard(participantStatus) == participantStatus # "joined"

\* SELECT status FROM quest_participants ..., then the two guards
completeQuestSelect(p) ==
  /\ proc[p].op = "completeQuest"
  /\ proc[p].pc = "selectParticipant"
  /\ LET r == proc[p]
         participantResult == ReadParticipant(p, r.id, r.user) IN
       IF participantResult = NoRow
       THEN \E fault \in Faults : Set(p, GuardFailed(r, "Forbidden", fault))
       ELSE LET r2 == [r EXCEPT !.participantStatus = participantResult.status] IN
            IF completeQuestGuard(participantResult.status)
            THEN \E fault \in Faults : Set(p, GuardFailed(r2, "InvalidState", fault))
            ELSE Set(p, [r2 EXCEPT !.pc = "update"])
  /\ UNCHANGED <<quests, participants, activities, achievements, dispatches>>
  /\ UNCHANGED chainVars

\* mutant: the UPDATE sets the status and leaves proof_of_completion alone
completeQuestUpdateMut(p) ==
  /\ proc[p].op = "completeQuest"
  /\ proc[p].pc = "update"
  /\ ~RowLockedByOther(p, proc[p].id, proc[p].user)
  /\ LET r == proc[p]
         a == [user_id |-> r.user, activity_type |-> "quest_submitted",
               questId |-> r.id] IN
       Set(p, [r EXCEPT !.pc = "COMMIT",
                        !.txUpdate = IF participants[<<r.id, r.user>>] = NoRow THEN NoWrite
                                     ELSE [participants[<<r.id, r.user>>] EXCEPT
                                             !.status = "submitted"],
                        !.txActivities = @ (+) SetToBag({a})])
  /\ UNCHANGED <<quests, participants, activities, achievements, dispatches>>
  /\ UNCHANGED chainVars

\* UPDATE quest_participants SET status = 'submitted', proof_of_completion = $1
\* WHERE quest_id = $2 AND user_id = $3: waits for the row lock, then
\* rewrites the row whatever its status has become; then
\* INSERT INTO user_activities (..) VALUES ($1, 'quest_submitted', $2)
completeQuestUpdate(p) ==
  /\ proc[p].op = "completeQuest"
  /\ proc[p].pc = "update"
  /\ ~RowLockedByOther(p, proc[p].id, proc[p].user)
  /\ LET r == proc[p]
         a == [user_id |-> r.user, activity_type |-> "quest_submitted",
               questId |-> r.id] IN
       Set(p, [r EXCEPT !.pc = "COMMIT",
                        !.txUpdate = IF participants[<<r.id, r.user>>] = NoRow THEN NoWrite
                                     ELSE [participants[<<r.id, r.user>>] EXCEPT
                                             !.status = "submitted", !.proof = r.proof],
                        !.txActivities = @ (+) SetToBag({a})])
  /\ UNCHANGED <<quests, participants, activities, achievements, dispatches>>
  /\ UNCHANGED chainVars

\* COMMIT, then res.status(200) and the release of the client
completeQuestCommit(p) ==
  /\ proc[p].op = "completeQuest"
  /\ proc[p].pc = "COMMIT"
  /\ participants' = CommitParticipants(proc[p])
  /\ activities' = activities (+) proc[p].txActivities
  /\ Set(p, [Finish(Discard(proc[p]), "Success") EXCEPT !.committed = TRUE,
                                                         !.transaction = "committed"])
  /\ UNCHANGED <<quests, achievements, dispatches>>
  /\ UNCHANGED chainVars

\* a query of completeQuest's transaction throws
completeQuestFails(p) ==
  /\ proc[p].op = "completeQuest"
  /\ QueryFails(p, {"selectParticipant", "update", "COMMIT"})
  /\ UNCHANGED chainVars

\* ---- verifyQuestCompletion ----

\* verifyQuestCompletion up to its first query: the verifierId and
\* participantId checks, pool.connect and BEGIN
verifyQuestCompletion(p) ==
  /\ FreeSlot(p)
  /\ \E v \in Users \cup {NoUser}, q \in QuestIds, u \in Users \cup {NoUser},
        fault \in Faults \cup {"connect"} :
       LET r == Begin(p, "verifyQuestCompletion", v, q, NoProof, u) IN
       IF v = NoUser THEN fault = "none" /\ Set(p, Respond(r, "Unauthorized"))
       ELSE IF u = NoUser THEN fault = "none" /\ Set(p, Respond(r, "ValidationError"))
       ELSE Set(p, Connect(r, "selectQuest", fault))
  /\ UNCHANGED <<quests, participants, activities, achievements, dispatches>>
  /\ UNCHANGED chainVars

\* mutant: the creator guard is missing
verifyNotCreatorMut(questCreatorId, verifierId) == FALSE

\* the creator guard: questCreatorId !== verifierId
verifyNotCreator(questCreatorId, verifierId) == questCreatorId # verifierId

\* mutant: the creator guard comes before the quest-exists guard; reading
\* creator_id of no row throws and the catch block runs
verifySelectQuestMut(p) ==
  /\ proc[p].op = "verifyQuestCompletion"
  /\ proc[p].pc = "selectQuest"
  /\ LET r == proc[p]
         questResult == SelectQuest(r.id) IN
       IF questResult = NoRow
       THEN \E rollbackOk \in BOOLEAN : Set(p, CatchBlock(r, rollbackOk))
       ELSE LET r2 == [r EXCEPT !.questCreatorId = questResult.creator_id,
                                !.rewardAmount = parseInt(questResult.reward_amount)] IN
            IF verifyNotCreator(r2.questCreatorId, r.user)
            THEN \E fault \in Faults : Set(p, GuardFailed(r2, "Forbidden", fault))
            ELSE Set(p, [r2 EXCEPT !.pc = "selectParticipant"])
  /\ UNCHANGED <<quests, participants, activities, achievements, dispatches>>
  /\ UNCHANGED chainVars

\* SELECT creator_id, reward_amount FROM quests WHERE id = $1, then the
\* quest-exists and creator guards
verifySelectQuest(p) ==
  /\ proc[p].op = "verifyQuestCompletion"
  /\ proc[p].pc = "selectQuest"
  /\ LET r == proc[p]
         questResult == SelectQuest(r.id) IN
       IF questResult = NoRow
       THEN \E fault \in Faults : Set(p, GuardFailed(r, "NotFound", fault))
       ELSE LET r2 == [r EXCEPT !.questCreatorId = questResult.creator_id,
                                !.rewardAmount = parseInt(questResult.reward_amount)] IN
            IF verifyNotCreator(r2.questCreatorId, r.user)
            THEN \E fault \in Faults : Set(p, GuardFailed(r2, "Forbidden", fault))
            ELSE Set(p, [r2 EXCEPT !.pc = "selectParticipant"])
  /\ UNCHANGED <<quests, participants, activities, achievements, dispatches>>
  /\ UNCHANGED chainVars

\* mutant: a missing row is answered like a requester who is not the creator
verifyMissingParticipantMut == "Forbidden"

\* the response when the participant has no row: 404 'Participant not found'
verifyMissingParticipant == "NotFound"

\* mutant: the status guard turns away only rows not yet submitted
verifyGuardMut(participantStatus) == participantStatus = "joined"

\* the status guard of verifyQuestCompletion: only 'submitted' may be verified
verifyGuard(participantStatus) == participantStatus # "submitted"

\* SELECT status FROM quest_participants ..., then the row and status guards
verifySelectParticipant(p) ==
  /\ proc[p].op = "verifyQuestCompletion"
  /\ proc[p].pc = "selectParticipant"
  /\ LET r == proc[p]
         participantResult == ReadParticipant(p, r.id, r.participantId) IN
       IF participantResult = NoRow
       THEN \E fault \in Faults : Set(p, GuardFailed(r, verifyMissingParticipant, fault))
       ELSE LET r2 == [r EXCEPT !.participantStatus = participantResult.status] IN
            IF verifyGuard(participantResult.status)
            THEN \E fault \in Faults : Set(p, GuardFailed(r2, "InvalidState", fault))
            ELSE Set(p, [r2 EXCEPT !.pc = "update"])
  /\ UNCHANGED <<quests, participants, activities, achievements, dispatches>>
  /\ UNCHANGED chainVars

\* mutant: the UPDATE goes through pool.query, outside the transaction, and
\* is committed on its own
verifyUpdateMut(p) ==
  /\ proc[p].op = "verifyQuestCompletion"
  /\ proc[p].pc = "update"
  /\ ~RowLockedByOther(p, proc[p].id, proc[p].participantId)
  /\ LET r == proc[p]
         a == [user_id |-> r.participantId, activity_type |-> "quest_verified",
               questId |-> r.id] IN
       /\ participants' = [participants EXCEPT ![<<r.id, r.participantId>>] =
                             IF @ = NoRow THEN @ ELSE [@ EXCEPT !.status = "verified"]]
       /\ Set(p, [r EXCEPT !.pc = "count", !.txActivities = @ (+) SetToBag({a})])
  /\ UNCHANGED <<quests, activities, achievements, dispatches>>
  /\ UNCHANGED chainVars

\* UPDATE quest_participants SET status = 'verified' WHERE quest_id = $1 AND
\* user_id = $2: waits for the row lock, then rewrites the row as last
\* committed; then INSERT INTO user_activities (..) VALUES ($1, 'quest_verified', $2)
verifyUpdate(p) ==
  /\ proc[p].op = "verifyQuestCompletion"
  /\ proc[p].pc = "update"
  /\ ~RowLockedByOther(p, proc[p].id, proc[p].participantId)
  /\ LET r == proc[p]
         row == participants[<<r.id, r.participantId>>]
         a == [user_id |-> r.participantId, activity_type |-> "quest_verified",
               questId |-> r.id] IN
       Set(p, [r EXCEPT !.pc = "count",
                        !.txUpdate = IF row = NoRow THEN NoWrite
                                     ELSE [row EXCEPT !.status = "verified"],
                        !.txActivities = @ (+) SetToBag({a})])
  /\ UNCHANGED <<quests, participants, activities, achievements, dispatches>>
  /\ UNCHANGED chainVars

\* SELECT COUNT(*) FROM quest_participants WHERE user_id = $1 AND status = 'verified'
verifiedQuestsCount(p) ==
  Cardinality({q \in QuestIds :
                 StatusOf(ReadParticipant(p, q, proc[p].participantId)) = "verified"})

\* mutant: the count is taken not to include the participation just written
isFirstQuestMut(count) == count = 0

\* the test verifiedQuestsCount === 1
isFirstQuest(count) == count = 1

\* the count query and the test on its result
verifyCount(p) ==
  /\ proc[p].op = "verifyQuestCompletion"
  /\ proc[p].pc = "count"
  /\ LET count == verifiedQuestsCount(p) IN
       Set(p, [proc[p] EXCEPT !.verifiedQuestsCount = count,
                              !.pc = IF isFirstQuest(count)
                                     THEN "selectAchievement" ELSE "COMMIT"])
  /\ UNCHANGED <<quests, participants, activities, achievements, dispatches>>
  /\ UNCHANGED chainVars

\* SELECT 1 FROM user_achievements WHERE user_id = $1 AND achievement_id = $2
verifySelectAchievement(p) ==
  /\ proc[p].op = "verifyQuestCompletion"
  /\ proc[p].pc = "selectAchievement"
  /\ LET existing == proc[p].txGrant
                       \/ BagIn(<<proc[p].participantId, achievementId>>, achievements) IN
       Set(p, [proc[p] EXCEPT !.existingAchievement = existing,
                              !.pc = IF existing THEN "COMMIT" ELSE "insertAchievement"])
  /\ UNCHANGED <<quests, participants, activities, achievements, dispatches>>
  /\ UNCHANGED chainVars

\* another transaction has inserted the same grant and not yet ended
GrantPendingElsewhere(p) ==
  \E o \in Procs \ {p} :
    proc[o].txGrant /\ proc[o].participantId = proc[p].participantId

\* mutant: user_achievements has no key on (user_id, achievement_id)
InsertAchievementErrorMut(u) == "ok"

\* error code of INSERT INTO user_achievements: the table's key
\* (user_id, achievement_id) raises 23505 when the grant exists
InsertAchievementError(u) ==
  IF BagIn(<<u, achievementId>>, achievements) THEN "23505" ELSE "ok"

\* INSERT INTO user_achievements (user_id, achievement_id): waits for a
\* concurrent insert of the same key and raises 23505 when the key exists
\* (the catch block runs); then
\* INSERT INTO user_activities (..) VALUES ($1, 'achievement_unlocked', $2)
verifyInsertAchievement(p) ==
  /\ proc[p].op = "verifyQuestCompletion"
  /\ proc[p].pc = "insertAchievement"
  /\ ~GrantPendingElsewhere(p)
  /\ LET r == proc[p]
         a == [user_id |-> r.participantId, activity_type |-> "achievement_unlocked",
               questId |-> 0] IN
       IF InsertAchievementError(r.participantId) # "ok"
       THEN \E rollbackOk \in BOOLEAN : Set(p, CatchBlock(r, rollbackOk))
       ELSE Set(p, [r EXCEPT !.pc = "COMMIT", !.txGrant = TRUE,
                             !.txActivities = @ (+) SetToBag({a})])
  /\ UNCHANGED <<quests, participants, activities, achievements, dispatches>>
  /\ UNCHANGED chainVars

\* mutant: the reward distribution runs before the COMMIT, the transaction
\* still open
verifyCommitMut(p) ==
  /\ proc[p].op = "verifyQuestCompletion"
  /\ proc[p].pc = "COMMIT"
  /\ Set(p, [proc[p] EXCEPT !.pc = "selectAddress"])
  /\ UNCHANGED <<quests, participants, activities, achievements, dispatches>>
  /\ UNCHANGED chainVars

\* COMMIT: the writes of the transaction become visible; the reward
\* distribution follows
verifyCommit(p) ==
  /\ proc[p].op = "verifyQuestCompletion"
  /\ proc[p].pc = "COMMIT"
  /\ participants' = CommitParticipants(proc[p])
  /\ activities' = activities (+) proc[p].txActivities
  /\ achievements' = CommitAchievements(proc[p])
  /\ Set(p, [Discard(proc[p]) EXCEPT !.pc = "selectAddress", !.committed = TRUE,
                                      !.transaction = "committed",
                                      !.granted = proc[p].txGrant])
  /\ UNCHANGED <<quests, dispatches>>
  /\ UNCHANGED chainVars

\* mutant: the distributor is called whether or not an address is linked
verifySelectAddressAnyMut(p) ==
  /\ proc[p].op = "verifyQuestCompletion"
  /\ proc[p].pc = "selectAddress"
  /\ \E fails \in BOOLEAN :
       IF fails
       THEN Set(p, [Finish(proc[p], "Success") EXCEPT !.faulted = TRUE])
       ELSE Set(p, [proc[p] EXCEPT !.pc = "distribute"])
  /\ UNCHANGED <<quests, participants, activities, achievements, dispatches>>
  /\ UNCHANGED chainVars

\* mutant: the address lookup sits outside the inner try, so its failure
\* reaches the outer catch block after the COMMIT
verifySelectAddressMut(p) ==
  /\ proc[p].op = "verifyQuestCompletion"
  /\ proc[p].pc = "selectAddress"
  /\ \E fails \in BOOLEAN :
       IF fails
       THEN Set(p, [CatchBlock(proc[p], TRUE) EXCEPT !.faulted = TRUE])
       ELSE IF aptos_address(proc[p].participantId) = NoAddress
       THEN Set(p, Finish(proc[p], "Success"))
       ELSE Set(p, [proc[p] EXCEPT !.pc = "distribute"])
  /\ UNCHANGED <<quests, participants, activities, achievements, dispatches>>
  /\ UNCHANGED chainVars

\* SELECT aptos_address FROM users WHERE id = $1 (pool.query, inside the
\* inner try): without an address, or when the query throws, the handler
\* answers 200 without calling the distributor
verifySelectAddress(p) ==
  /\ proc[p].op = "verifyQuestCompletion"
  /\ proc[p].pc = "selectAddress"
  /\ \E fails \in BOOLEAN :
       IF fails \/ aptos_address(proc[p].participantId) = NoAddress
       THEN Set(p, [Finish(proc[p], "Success") EXCEPT !.faulted = fails])
       ELSE Set(p, [proc[p] EXCEPT !.pc = "distribute"])
  /\ UNCHANGED <<quests, participants, activities, achievements, dispatches>>
  /\ UNCHANGED chainVars

\* mutant: the call of the distributor sits outside the inner try, so its
\* rejection reaches the outer catch block
verifyDistributeMut(p) ==
  /\ proc[p].op = "verifyQuestCompletion"
  /\ proc[p].pc = "distribute"
  /\ \E ok \in BOOLEAN :
       LET r == proc[p]
           d == [address |-> aptos_address(r.participantId), amount |-> r.rewardAmount,
                 questId |-> r.id, participantId |-> r.participantId] IN
       /\ dispatches' = dispatches (+) SetToBag({d})
       /\ Set(p, IF ok THEN [Finish(r, "Success") EXCEPT !.distributed = "paid"]
                  ELSE [CatchBlock(r, TRUE) EXCEPT !.distributed = "failed"])
  /\ UNCHANGED <<quests, participants, activities, achievements>>
  /\ UNCHANGED chainVars

\* await AptosService.distributeQuestRewards(participantAddress, rewardAmount);
\* a rejection is caught and logged, the handler answers 200 either way
verifyDistribute(p) ==
  /\ proc[p].op = "verifyQuestCompletion"
  /\ proc[p].pc = "distribute"
  /\ \E ok \in BOOLEAN :
       LET r == proc[p]
           d == [address |-> aptos_address(r.participantId), amount |-> r.rewardAmount,
                 questId |-> r.id, participantId |-> r.participantId] IN
       /\ dispatches' = dispatches (+) SetToBag({d})
       /\ Set(p, [Finish(r, "Success") EXCEPT !.distributed = IF ok THEN "paid" ELSE "failed"])
  /\ UNCHANGED <<quests, participants, activities, achievements>>
  /\ UNCHANGED chainVars

\* a query of verifyQuestCompletion's transaction throws
verifyFails(p) ==
  /\ proc[p].op = "verifyQuestCompletion"
  /\ QueryFails(p, {"selectQuest", "selectParticipant", "update", "count",
                    "selectAchievement", "insertAchievement", "COMMIT"})
  /\ UNCHANGED chainVars

\* the response has been sent; the slot is free again
Return(p) ==
  /\ proc[p].pc = "done"
  /\ Set(p, IdleProc)
  /\ UNCHANGED <<quests, participants, activities, achievements, dispatches>>
  /\ UNCHANGED chainVars

Next ==
  \E p \in Procs :
    \/ createQuest(p)
    \/ createQuestInsert(p)
    \/ joinQuest(p)
    \/ joinQuestSelect(p)
    \/ joinQuestInsert(p)
    \/ joinQuestFails(p)
    \/ completeQuest(p)
    \/ completeQuestSelect(p)
    \/ completeQuestUpdate(p)
    \/ completeQuestCommit(p)
    \/ completeQuestFails(p)
    \/ verifyQuestCompletion(p)
    \/ verifySelectQuest(p)
    \/ verifySelectParticipant(p)
    \/ verifyUpdate(p)
    \/ verifyCount(p)
    \/ verifySelectAchievement(p)
    \/ verifyInsertAchievement(p)
    \/ verifyCommit(p)
    \/ verifySelectAddress(p)
    \/ verifyDistribute(p)
    \/ verifyFails(p)
    \/ Return(p)

Spec == Init /\ [][Next]_vars

\* ---- verifications on their own ----

\* quests.reward_amount of the quests on offer: the amounts differ by quest
InitialReward(q) == IF q = VerifyQuests THEN OtherRewardAmountText ELSE RewardAmountText

\* the database once one user has created VerifyQuests quests and the other
\* user has joined them all and submitted a proof for some, before any
\* verification: what createQuest, joinQuest and completeQuest leave behind
\* when run one after the other
InitVerify ==
  \E creator \in Users, status \in [1..VerifyQuests -> {"joined", "submitted"}] :
    /\ quests = [q \in 1..VerifyQuests |->
                   QuestRow(creator, InitialReward(q), "t0", DefaultQuestStatus, "future")]
    /\ participants =
         [k \in (1..VerifyQuests) \X Users |->
            IF k[2] = creator THEN NoRow
            ELSE [status |-> status[k[1]],
                  proof |-> IF status[k[1]] = "submitted" THEN "pA" ELSE NoProof,
                  rows |-> 1]]
    /\ activities =
         SetToBag({[user_id |-> k[2], activity_type |-> "quest_submitted",
                    questId |-> k[1]] :
                     k \in {k \in (1..VerifyQuests) \X Users :
                              k[2] # creator /\ status[k[1]] = "submitted"}})
    /\ achievements = EmptyBag
    /\ dispatches = EmptyBag
    /\ proc = [p \in Procs |-> IdleProc]
    /\ quest_store = init_module
    /\ txn = NoTxn

NextVerify ==
  \E p \in Procs :
    \/ verifyQuestCompletion(p)
    \/ verifySelectQuest(p)
    \/ verifySelectParticipant(p)
    \/ verifyUpdate(p)
    \/ verifyCount(p)
    \/ verifySelectAchievement(p)
    \/ verifyInsertAchievement(p)
    \/ verifyCommit(p)
    \/ verifySelectAddress(p)
    \/ verifyDistribute(p)
    \/ verifyFails(p)
    \/ Return(p)

SpecVerify == InitVerify /\ [][NextVerify]_vars

\* ---- submissions and verifications over time ----

\* statements a handler awaits on the database
RoundTrips ==
  {"selectQuest", "selectParticipant", "update", "count", "selectAchievement",
   "insertAchievement", "COMMIT", "selectAddress"}

\* a database round trip never returns: the pool is created with a
\* connection string only, so no statement, query or connection timeout ends
\* the await and the handler stays where it is, holding its client
neverReturns(p) ==
  /\ proc[p].op \in {"completeQuest", "verifyQuestCompletion"}
  /\ proc[p].pc \in RoundTrips
  /\ Set(p, [proc[p] EXCEPT !.pc = "waiting"])
  /\ UNCHANGED <<quests, participants, activities, achievements, dispatches>>
  /\ UNCHANGED chainVars

\* the database once the quests have been created by one user and joined by
\* the other, before any submission
InitLive ==
  \E creator \in Users :
    /\ quests = [q \in 1..MaxQuests |->
                   QuestRow(creator, RewardAmountText, "t0", DefaultQuestStatus, "future")]
    /\ participants =
         [k \in (1..MaxQuests) \X Users |->
            IF k[2] = creator THEN NoRow
            ELSE [status |-> DefaultStatus, proof |-> NoProof, rows |-> 1]]
    /\ activities = EmptyBag
    /\ achievements = EmptyBag
    /\ dispatches = EmptyBag
    /\ proc = [p \in Procs |-> IdleProc]
    /\ quest_store = init_module
    /\ txn = NoTxn

\* a step of the handler in slot p once its request has been taken up: the
\* answer of the database or of the distributor arrives and the handler runs
\* on to its next await
Continue(p) ==
  \/ completeQuestSelect(p)
  \/ completeQuestUpdate(p)
  \/ completeQuestCommit(p)
  \/ completeQuestFails(p)
  \/ verifySelectQuest(p)
  \/ verifySelectParticipant(p)
  \/ verifyUpdate(p)
  \/ verifyCount(p)
  \/ verifySelectAchievement(p)
  \/ verifyInsertAchievement(p)
  \/ verifyCommit(p)
  \/ verifySelectAddress(p)
  \/ verifyDistribute(p)
  \/ verifyFails(p)
  \/ Return(p)

NextLive ==
  \E p \in Procs :
    \/ completeQuest(p)
    \/ verifyQuestCompletion(p)
    \/ Continue(p)
    \/ neverReturns(p)

\* the event loop runs every continuation whose await has settled, and the
\* database serves a statement waiting for a row lock once the lock is free
SpecLive == InitLive /\ [][NextLive]_vars /\ \A p \in Procs : SF_vars(Continue(p))

\* ---- quest maintenance and read-only requests ----

\* updateQuest up to its first await: the schema validation of the body and
\* the test that it holds a field to update
updateQuest(p) ==
  /\ FreeSlot(p)
  /\ \E u \in Users \cup {NoUser}, q \in QuestIds, title \in Titles \cup {NoTitle} :
       LET r == [Begin(p, "updateQuest", u, q, NoProof, NoUser) EXCEPT !.title = title] IN
       IF title = NoTitle
       THEN Set(p, Respond(r, "ValidationError"))
       ELSE Set(p, [r EXCEPT !.pc = "selectQuest"])
  /\ UNCHANGED <<quests, participants, activities, achievements, dispatches>>
  /\ UNCHANGED chainVars

\* mutant: the owner guard of updateQuest is missing
updateQuestNotOwnerMut(creator_id, authenticatedUserId) == FALSE

\* the owner guard: verifyResult.rows[0].creator_id !== authenticatedUserId
updateQuestNotOwner(creator_id, authenticatedUserId) == creator_id # authenticatedUserId

\* SELECT creator_id FROM quests WHERE id = $1, then the two guards
updateQuestSelect(p) ==
  /\ proc[p].op = "updateQuest"
  /\ proc[p].pc = "selectQuest"
  /\ LET r == proc[p]
         verifyResult == SelectQuest(r.id) IN
       IF verifyResult = NoRow
       THEN Set(p, Respond(r, "NotFound"))
       ELSE IF updateQuestNotOwner(verifyResult.creator_id, r.user)
       THEN Set(p, Respond([r EXCEPT !.questCreatorId = verifyResult.creator_id],
                           "Forbidden"))
       ELSE Set(p, [r EXCEPT !.pc = "updateQuest",
                             !.questCreatorId = verifyResult.creator_id])
  /\ UNCHANGED <<quests, participants, activities, achievements, dispatches>>
  /\ UNCHANGED chainVars

\* mutant: the UPDATE also resets the participations of the quest
updateQuestUpdateMut(p) ==
  /\ proc[p].op = "updateQuest"
  /\ proc[p].pc = "updateQuest"
  /\ LET r == proc[p] IN
       IF SelectQuest(r.id) = NoRow
       THEN /\ UNCHANGED <<quests, participants>>
            /\ Set(p, Respond(r, "Success"))
       ELSE /\ quests' = [quests EXCEPT ![r.id].title = r.title]
            /\ participants' =
                 [k \in DOMAIN participants |->
                    IF k[1] = r.id /\ participants[k] # NoRow
                    THEN [participants[k] EXCEPT !.status = DefaultStatus, !.proof = NoProof]
                    ELSE participants[k]]
            /\ Set(p, [Respond(r, "Success") EXCEPT !.committed = TRUE])
  /\ UNCHANGED <<activities, achievements, dispatches>>
  /\ UNCHANGED chainVars

\* UPDATE quests SET <fields of the body> WHERE id = $n RETURNING *, answered
\* 200 also when the row has gone in the meantime and nothing is updated
updateQuestUpdate(p) ==
  /\ proc[p].op = "updateQuest"
  /\ proc[p].pc = "updateQuest"
  /\ LET r == proc[p] IN
       IF SelectQuest(r.id) = NoRow
       THEN /\ UNCHANGED quests
            /\ Set(p, Respond(r, "Success"))
       ELSE /\ quests' = [quests EXCEPT ![r.id].title = r.title]
            /\ Set(p, [Respond(r, "Success") EXCEPT !.committed = TRUE])
  /\ UNCHANGED <<participants, activities, achievements, dispatches>>
  /\ UNCHANGED chainVars

\* a pool.query of updateQuest or deleteQuest fails: the catch block answers 500
maintenanceFails(p) ==
  /\ proc[p].op \in {"updateQuest", "deleteQuest"}
  /\ proc[p].pc \in {"selectQuest", "updateQuest", "deleteQuest"}
  /\ Set(p, [Respond(proc[p], "InternalError") EXCEPT !.faulted = TRUE])
  /\ UNCHANGED <<quests, participants, activities, achievements, dispatches>>
  /\ UNCHANGED chainVars

\* deleteQuest up to its first await
deleteQuest(p) ==
  /\ FreeSlot(p)
  /\ \E u \in Users \cup {NoUser}, q \in QuestIds :
       Set(p, [Begin(p, "deleteQuest", u, q, NoProof, NoUser) EXCEPT !.pc = "selectQuest"])
  /\ UNCHANGED <<quests, participants, activities, achievements, dispatches>>
  /\ UNCHANGED chainVars

\* mutant: a quest that is not there is answered 404
deleteQuestMissingMut == "NotFound"

\* the response when the quest is not there: 204, as after a delete
deleteQuestMissing == "NoContent"

\* the owner guard: verifyResult.rows[0].creator_id !== authenticatedUserId
deleteQuestNotOwner(creator_id, authenticatedUserId) == creator_id # authenticatedUserId

\* SELECT creator_id FROM quests WHERE id = $1, then the two guards
deleteQuestSelect(p) ==
  /\ proc[p].op = "deleteQuest"
  /\ proc[p].pc = "selectQuest"
  /\ LET r == proc[p]
         verifyResult == SelectQuest(r.id) IN
       IF verifyResult = NoRow
       THEN Set(p, Respond(r, deleteQuestMissing))
       ELSE IF deleteQuestNotOwner(verifyResult.creator_id, r.user)
       THEN Set(p, Respond([r EXCEPT !.questCreatorId = verifyResult.creator_id],
                           "Forbidden"))
       ELSE Set(p, [r EXCEPT !.pc = "deleteQuest",
                             !.questCreatorId = verifyResult.creator_id])
  /\ UNCHANGED <<quests, participants, activities, achievements, dispatches>>
  /\ UNCHANGED chainVars

\* what the schema makes of the participations of a deleted quest: they go
\* with it, they stop the DELETE (23503), or they stay
OnDelete == {"cascade", "restrict", "none"}

\* DELETE FROM quests WHERE id = $1, answered 204; a cascading delete waits
\* for the row locks of open transactions
deleteQuestDelete(p) ==
  /\ proc[p].op = "deleteQuest"
  /\ proc[p].pc = "deleteQuest"
  /\ LET r == proc[p]
         rows == {k \in DOMAIN participants : k[1] = r.id /\ participants[k] # NoRow} IN
       IF SelectQuest(r.id) = NoRow
       THEN /\ UNCHANGED <<quests, participants>>
            /\ Set(p, Respond(r, "NoContent"))
       ELSE \E onDelete \in OnDelete :
              CASE onDelete = "restrict" /\ rows # {} ->
                     /\ UNCHANGED <<quests, participants>>
                     /\ Set(p, Respond(r, "InternalError"))
                [] onDelete = "cascade" /\ rows # {} ->
                     /\ \A k \in rows : ~RowLockedByOther(p, k[1], k[2])
                     /\ quests' = [quests EXCEPT ![r.id] = Deleted]
                     /\ participants' =
                          [k \in DOMAIN participants |->
                             IF k \in rows THEN NoRow ELSE participants[k]]
                     /\ Set(p, [Respond(r, "NoContent") EXCEPT !.committed = TRUE])
                [] OTHER ->
                     /\ quests' = [quests EXCEPT ![r.id] = Deleted]
                     /\ UNCHANGED participants
                     /\ Set(p, [Respond(r, "NoContent") EXCEPT !.committed = TRUE])
  /\ UNCHANGED <<activities, achievements, dispatches>>
  /\ UNCHANGED chainVars

\* a request that only reads: its one SELECT and its answer
ReadOnly(p, op, id, outcomes) ==
  /\ FreeSlot(p)
  /\ \E outcome \in outcomes \cup {"InternalError"} :
       Set(p, [Respond(Begin(p, op, NoUser, id, NoProof, NoUser), outcome) EXCEPT
                 !.faulted = (outcome = "InternalError")])
  /\ UNCHANGED <<quests, participants, activities, achievements, dispatches>>
  /\ UNCHANGED chainVars

\* SELECT * FROM quests [WHERE ...], answered 200
getAllQuests(p) == ReadOnly(p, "getAllQuests", 0, {"Success"})

\* SELECT * FROM quests WHERE id = $1, answered 200, or 404 for no row
getQuestById(p) ==
  \E q \in QuestIds :
    ReadOnly(p, "getQuestById", q,
             IF SelectQuest(q) = NoRow THEN {"NotFound"} ELSE {"Success"})

\* SELECT ... FROM quest_participants qp JOIN users u ..., answered 200
getQuestParticipants(p) ==
  \E q \in QuestIds : ReadOnly(p, "getQuestParticipants", q, {"Success"})

\* the lat and lon check; SELECT ... FROM quests WHERE type = 'location_based'
\* AND status = 'active', answered 200
getNearbyQuests(p) ==
  \E latLon \in BOOLEAN :
    IF latLon THEN ReadOnly(p, "getNearbyQuests", 0, {"Success"})
    ELSE /\ FreeSlot(p)
         /\ Set(p, Respond(Begin(p, "getNearbyQuests", NoUser, 0, NoProof, NoUser),
                           "ValidationError"))
         /\ UNCHANGED <<quests, participants, activities, achievements, dispatches>>
         /\ UNCHANGED chainVars

\* the database once one user has created a quest and the other has joined
\* it and submitted a proof, with room for one more quest
InitCatalogue ==
  \E creator \in Users :
    /\ quests = [q \in 1..QuestRows |->
                   IF q = 1
                   THEN QuestRow(creator, RewardAmountText, "t0", DefaultQuestStatus, "future")
                   ELSE NoRow]
    /\ participants =
         [k \in (1..QuestRows) \X Users |->
            IF k[1] = 1 /\ k[2] # creator
            THEN [status |-> "submitted", proof |-> "pA", rows |-> 1]
            ELSE NoRow]
    /\ activities = EmptyBag
    /\ achievements = EmptyBag
    /\ dispatches = EmptyBag
    /\ proc = [p \in Procs |-> IdleProc]
    /\ quest_store = init_module
    /\ txn = NoTxn

\* the requests that create, read, change and remove quests, and the joins
NextCatalogue ==
  \E p \in Procs :
    \/ createQuest(p)
    \/ createQuestInsert(p)
    \/ getAllQuests(p)
    \/ getQuestById(p)
    \/ updateQuest(p)
    \/ updateQuestSelect(p)
    \/ updateQuestUpdate(p)
    \/ deleteQuest(p)
    \/ deleteQuestSelect(p)
    \/ deleteQuestDelete(p)
    \/ maintenanceFails(p)
    \/ joinQuest(p)
    \/ joinQuestSelect(p)
    \/ joinQuestInsert(p)
    \/ joinQuestFails(p)
    \/ getQuestParticipants(p)
    \/ getNearbyQuests(p)
    \/ Return(p)

SpecCatalogue == InitCatalogue /\ [][NextCatalogue]_vars

\* quests.status with quests.expires_at as the quest on offer may hold them
QuestStates == {<<"active", "future">>, <<"active", "past">>,
                <<"expired", "past">>, <<"completed", "future">>}

\* the database with one quest, in any status and expired or not, that
\* nobody has joined yet
InitQuests ==
  \E creator \in Users, state \in QuestStates :
    /\ quests = [q \in 1..MaxQuests |->
                   QuestRow(creator, RewardAmountText, "t0", state[1], state[2])]
    /\ participants = [k \in (1..MaxQuests) \X Users |-> NoRow]
    /\ activities = EmptyBag
    /\ achievements = EmptyBag
    /\ dispatches = EmptyBag
    /\ proc = [p \in Procs |-> IdleProc]
    /\ quest_store = init_module
    /\ txn = NoTxn

\* joins, submissions and verifications in flight
Lifecycle ==
  {o \in Procs : proc[o].op \in {"joinQuest", "completeQuest", "verifyQuestCompletion"}}

\* room for one more of them: how they interleave with one another is the
\* subject of Spec, here they run against the maintenance of the quest
LifecycleFree == Cardinality(Lifecycle) < MaxLifecycle

NextQuests ==
  \E p \in Procs :
    \/ updateQuest(p)
    \/ updateQuestSelect(p)
    \/ updateQuestUpdate(p)
    \/ deleteQuest(p)
    \/ deleteQuestSelect(p)
    \/ deleteQuestDelete(p)
    \/ maintenanceFails(p)
    \/ (LifecycleFree /\ joinQuest(p))
    \/ joinQuestSelect(p)
    \/ joinQuestInsert(p)
    \/ joinQuestFails(p)
    \/ (LifecycleFree /\ completeQuest(p))
    \/ completeQuestSelect(p)
    \/ completeQuestUpdate(p)
    \/ completeQuestCommit(p)
    \/ completeQuestFails(p)
    \/ (LifecycleFree /\ verifyQuestCompletion(p))
    \/ verifySelectQuest(p)
    \/ verifySelectParticipant(p)
    \/ verifyUpdate(p)
    \/ verifyCount(p)
    \/ verifySelectAchievement(p)
    \/ verifyInsertAchievement(p)
    \/ verifyCommit(p)
    \/ verifySelectAddress(p)
    \/ verifyDistribute(p)
    \/ verifyFails(p)
    \/ Return(p)

SpecQuests == InitQuests /\ [][NextQuests]_vars

\* ---- the Move module LunoaQuests::quests ----
\* Every entry function runs as one transaction of the chain: transactions
\* execute one after the other and an abort leaves the store as it was.

\* the tables and the handlers of the backend, which the module never touches
backendVars == <<quests, participants, activities, achievements, dispatches, proc>>

\* signers of the transactions
Addresses == {"0xAA", "0xBB"}

\* quest_id arguments: ids of quests created and ids never given out
ChainQuestIds == 0..MaxChainQuests

\* abort codes of the assert! statements; 0 stands for a transaction that
\* executed
E_QUEST_NOT_FOUND == 1
E_QUEST_NOT_ACTIVE == 2
E_CREATOR_CANNOT_JOIN == 3
E_ALREADY_JOINED == 4
E_NOT_A_PARTICIPANT == 5
E_COMPLETION_ALREADY_SUBMITTED == 6
Executed == 0

\* table::contains
contains(table, key) == key \in DOMAIN table

\* table::add of a key the table does not hold
add(table, key, value) == table @@ (key :> value)

\* mutant: the counter is advanced before the id is taken from it
create_questMut(creator_addr, reward_amount) ==
  /\ quest_store.next_quest_id < MaxChainQuests
  /\ LET quest_id == quest_store.next_quest_id + 1
         new_quest == [id |-> quest_id, creator |-> creator_addr,
                       reward_amount |-> reward_amount, is_active |-> TRUE,
                       participants |-> <<>>] IN
       /\ quest_store' =
            [quest_store EXCEPT
               !.quests = add(@, quest_id, new_quest),
               !.next_quest_id = @ + 1,
               !.quest_created_events =
                  Append(@, [quest_id |-> quest_id, creator |-> creator_addr,
                             reward |-> reward_amount])]
       /\ txn' = [function |-> "create_quest", sender |-> creator_addr,
                  quest_id |-> quest_id, abort_code |-> Executed]
  /\ UNCHANGED backendVars

\* public entry fun create_quest(creator, title, description, reward_amount)
create_quest(creator_addr, reward_amount) ==
  /\ quest_store.next_quest_id < MaxChainQuests
  /\ LET quest_id == quest_store.next_quest_id
         new_quest == [id |-> quest_id, creator |-> creator_addr,
                       reward_amount |-> reward_amount, is_active |-> TRUE,
                       participants |-> <<>>] IN
       /\ quest_store' =
            [quest_store EXCEPT
               !.quests = add(@, quest_id, new_quest),
               !.next_quest_id = @ + 1,
               !.quest_created_events =
                  Append(@, [quest_id |-> quest_id, creator |-> creator_addr,
                             reward |-> reward_amount])]
       /\ txn' = [function |-> "create_quest", sender |-> creator_addr,
                  quest_id |-> quest_id, abort_code |-> Executed]
  /\ UNCHANGED backendVars

\* mutant: the creator may join the creator's own quest
join_quest_abortMut(store, joiner_addr, quest_id) ==
  IF ~contains(store.quests, quest_id) THEN E_QUEST_NOT_FOUND
  ELSE IF ~store.quests[quest_id].is_active THEN E_QUEST_NOT_ACTIVE
  ELSE IF contains(store.quests[quest_id].participants, joiner_addr) THEN E_ALREADY_JOINED
  ELSE Executed

\* the assert! statements of join_quest, in their order
join_quest_abort(store, joiner_addr, quest_id) ==
  IF ~contains(store.quests, quest_id) THEN E_QUEST_NOT_FOUND
  ELSE IF ~store.quests[quest_id].is_active THEN E_QUEST_NOT_ACTIVE
  ELSE IF store.quests[quest_id].creator = joiner_addr THEN E_CREATOR_CANNOT_JOIN
  ELSE IF contains(store.quests[quest_id].participants, joiner_addr) THEN E_ALREADY_JOINED
  ELSE Executed

\* public entry fun join_quest(joiner, quest_id)
join_quest(joiner_addr, quest_id) ==
  /\ LET code == join_quest_abort(quest_store, joiner_addr, quest_id) IN
       /\ txn' = [function |-> "join_quest", sender |-> joiner_addr,
                  quest_id |-> quest_id, abort_code |-> code]
       /\ quest_store' =
            IF code # Executed THEN quest_store
            ELSE [quest_store EXCEPT
                    !.quests[quest_id].participants = add(@, joiner_addr, "joined"),
                    !.quest_joined_events =
                       Append(@, [quest_id |-> quest_id, participant |-> joiner_addr])]
  /\ UNCHANGED backendVars

\* mutant: the status of the participant is not looked at
complete_quest_abortMut(store, completer_addr, quest_id) ==
  IF ~contains(store.quests, quest_id) THEN E_QUEST_NOT_FOUND
  ELSE IF ~store.quests[quest_id].is_active THEN E_QUEST_NOT_ACTIVE
  ELSE IF ~contains(store.quests[quest_id].participants, completer_addr)
  THEN E_NOT_A_PARTICIPANT
  ELSE Executed

\* the assert! statements of complete_quest, in their order
complete_quest_abort(store, completer_addr, quest_id) ==
  IF ~contains(store.quests, quest_id) THEN E_QUEST_NOT_FOUND
  ELSE IF ~store.quests[quest_id].is_active THEN E_QUEST_NOT_ACTIVE
  ELSE IF ~contains(store.quests[quest_id].participants, completer_addr)
  THEN E_NOT_A_PARTICIPANT
  ELSE IF store.quests[quest_id].participants[completer_addr] # "joined"
  THEN E_COMPLETION_ALREADY_SUBMITTED
  ELSE Executed

\* mutant: a completion puts the participant back to "joined"
complete_questMut(completer_addr, quest_id) ==
  /\ LET code == complete_quest_abort(quest_store, completer_addr, quest_id) IN
       /\ txn' = [function |-> "complete_quest", sender |-> completer_addr,
                  quest_id |-> quest_id, abort_code |-> code]
       /\ quest_store' =
            IF code = E_COMPLETION_ALREADY_SUBMITTED
            THEN [quest_store EXCEPT
                    !.quests[quest_id].participants[completer_addr] = "joined"]
            ELSE IF code # Executed THEN quest_store
            ELSE [quest_store EXCEPT
                    !.quests[quest_id].participants[completer_addr] = "submitted",
                    !.quest_completed_events =
                       Append(@, [quest_id |-> quest_id, completer |-> completer_addr,
                                  reward_paid |-> quest_store.quests[quest_id].reward_amount])]
  /\ UNCHANGED backendVars

\* public entry fun complete_quest(completer, quest_id)
complete_quest(completer_addr, quest_id) ==
  /\ LET code == complete_quest_abort(quest_store, completer_addr, quest_id) IN
       /\ txn' = [function |-> "complete_quest", sender |-> completer_addr,
                  quest_id |-> quest_id, abort_code |-> code]
       /\ quest_store' =
            IF code # Executed THEN quest_store
            ELSE [quest_store EXCEPT
                    !.quests[quest_id].participants[completer_addr] = "submitted",
                    !.quest_completed_events =
                       Append(@, [quest_id |-> quest_id, completer |-> completer_addr,
                                  reward_paid |-> quest_store.quests[quest_id].reward_amount])]
  /\ UNCHANGED backendVars

NextChain ==
  \/ \E creator_addr \in Addresses, reward_amount \in {RewardAmount, OtherRewardAmount} :
       create_quest(creator_addr, reward_amount)
  \/ \E joiner_addr \in Addresses, quest_id \in ChainQuestIds :
       join_quest(joiner_addr, quest_id)
  \/ \E completer_addr \in Addresses, quest_id \in ChainQuestIds :
       complete_quest(completer_addr, quest_id)

SpecChain == Init /\ [][NextChain]_vars

\* ---- properties ----

\* handler p has answered a request of kind op
Finished(p, op) == proc[p].op = op /\ proc[p].pc = "done"

\* handler p ran its transaction to an answer without a data-layer failure
Ran(p, op) == Finished(p, op) /\ proc[p].client = "released" /\ ~proc[p].faulted

\* number of distributeQuestRewards calls made for participant u of quest q
DispatchCount(q, u) ==
  LET S == {d \in BagToSet(dispatches) : d.questId = q /\ d.participantId = u}
  IN BagCardinality([d \in S |-> dispatches[d]])

\* number of activity records of one kind for user u and quest q
ActivityCount(u, kind, q) ==
  LET a == [user_id |-> u, activity_type |-> kind, questId |-> q]
  IN IF BagIn(a, activities) THEN CopiesIn(a, activities) ELSE 0

OneRowPerPair == \A k \in Pairs : participants[k] # NoRow => participants[k].rows = 1

\* C1: for every (quest, participant) pair at most one participation row
\* exists in every reachable state, and a join by a participant who already
\* holds a row returns Conflict and leaves that one row as it is, under any
\* interleaving of joins.
C1_JoinTwiceConflict ==
  /\ []OneRowPerPair
  /\ [][\A p \in Procs :
          (/\ proc[p].op = "joinQuest"
           /\ proc[p].pc = "insertParticipant"
           /\ proc'[p].pc = "done"
           /\ ~proc'[p].faulted
           /\ participants[<<proc[p].id, proc[p].user>>] # NoRow)
          => (proc'[p].outcome = "Conflict" /\ participants' = participants)]_vars

C1_Witness ==
  \E p \in Procs :
    /\ Finished(p, "joinQuest")
    /\ proc[p].outcome = "Conflict"
    /\ participants[<<proc[p].id, proc[p].user>>] # NoRow
    /\ participants[<<proc[p].id, proc[p].user>>].rows = 1

\* C2: in every reachable state no participation row belongs to the creator
\* of its quest, and a join by the quest's creator returns InvalidOperation
\* and inserts nothing.
C2_CreatorNeverJoins ==
  /\ [](\A q \in QuestIds, u \in Users :
          participants[<<q, u>>] # NoRow
          => (quests[q] # NoRow /\ quests[q].creator_id # u))
  /\ [][\A p \in Procs :
          (/\ proc[p].op = "joinQuest"
           /\ proc[p].pc = "selectQuest"
           /\ proc'[p].pc # "selectQuest"
           /\ ~proc'[p].faulted
           /\ quests[proc[p].id] # NoRow
           /\ quests[proc[p].id].creator_id = proc[p].user)
          => (/\ proc'[p].pc = "done"
              /\ proc'[p].outcome = "InvalidOperation"
              /\ participants' = participants)]_vars

C2_Witness ==
  \E p \in Procs :
    /\ Finished(p, "joinQuest")
    /\ proc[p].outcome = "InvalidOperation"
    /\ quests[proc[p].id].creator_id = proc[p].user
    /\ participants[<<proc[p].id, proc[p].user>>] = NoRow

\* C3: for each (quest, participant) pair the Reward Distributor is invoked
\* at most once, across any interleaving of join, submit-completion and verify.
C3_AtMostOneDispatch ==
  \A k \in Pairs : DispatchCount(k[1], k[2]) <= 1

\* C4: of two verify invocations by the creator that run against the same
\* submitted participation row, exactly one returns Success; the row is
\* verified once, one quest_verified record is appended and one dispatch made.
C4_ConcurrentVerifyOneSuccess ==
  \A p, o \in Procs :
    (/\ p # o
     /\ Ran(p, "verifyQuestCompletion")
     /\ Ran(o, "verifyQuestCompletion")
     /\ proc[p].id = proc[o].id
     /\ proc[p].participantId = proc[o].participantId
     /\ proc[p].participantStatus = "submitted"
     /\ proc[o].participantStatus = "submitted")
    => ~(proc[p].outcome = "Success" /\ proc[o].outcome = "Success")

\* C5: of two submit-completion invocations by the same participant that run
\* against the same joined participation row, at most one returns Success.
C5_ConcurrentSubmitOneSuccess ==
  \A p, o \in Procs :
    (/\ p # o
     /\ Ran(p, "completeQuest")
     /\ Ran(o, "completeQuest")
     /\ proc[p].id = proc[o].id
     /\ proc[p].user = proc[o].user)
    => ~(proc[p].outcome = "Success" /\ proc[o].outcome = "Success")

\* C6: the committed status of a pair only ever changes by the steps
\* (no row) -> joined, joined -> submitted and submitted -> verified; no
\* operation moves a row backwards, skips submitted or changes a verified row.
C6_StatusOnlyAdvances ==
  [][\A k \in Pairs :
       StatusOf(participants'[k]) # StatusOf(participants[k])
       => <<StatusOf(participants[k]), StatusOf(participants'[k])>> \in
            {<<NoStatus, "joined">>, <<"joined", "submitted">>,
             <<"submitted", "verified">>}]_vars

\* C7: submit-completion returns Success only when the status it finds is
\* joined; when the status is submitted or verified (a row never returns to
\* joined) it returns InvalidState and leaves the rows and the activity log
\* unchanged.
C7_SubmitOnlyFromJoined ==
  /\ [](\A p \in Procs :
          Finished(p, "completeQuest")
          => /\ proc[p].outcome = "Success" => proc[p].participantStatus = "joined"
             /\ (proc[p].participantStatus \in {"submitted", "verified"}
                 /\ ~proc[p].faulted)
                => (proc[p].outcome = "InvalidState" /\ ~proc[p].committed))
  /\ [][\A p \in Procs :
          (/\ proc[p].op = "completeQuest"
           /\ proc'[p] # proc[p]
           /\ proc'[p].participantStatus \in {"submitted", "verified"})
          => (participants' = participants /\ activities' = activities)]_vars
  /\ [][\A k \in Pairs :
          StatusOf(participants[k]) \in {"submitted", "verified"}
          => StatusOf(participants'[k]) \in {"submitted", "verified"}]_vars

C7_Witness ==
  \E p \in Procs :
    /\ Finished(p, "completeQuest")
    /\ proc[p].participantStatus = "submitted"
    /\ proc[p].outcome = "InvalidState"
    /\ StatusOf(participants[<<proc[p].id, proc[p].user>>]) = "submitted"

\* the requester and row state of a finished verify are not (creator, submitted)
OtherCombination(p) ==
  /\ proc[p].questCreatorId # NoUser
  /\ ~(proc[p].user = proc[p].questCreatorId /\ proc[p].participantStatus = "submitted")

CreatorVerifiedMissingRow(p) ==
  /\ Ran(p, "verifyQuestCompletion")
  /\ proc[p].user = proc[p].questCreatorId
  /\ proc[p].participantStatus = NoStatus

C10_FailedVerifyNoEffects ==
  /\ [](\A p \in Procs :
          (/\ proc[p].op = "verifyQuestCompletion"
           /\ (proc[p].committed \/ proc[p].distributed # "none"))
          => proc[p].outcome \in {"none", "Success"})
  /\ [][\A p \in Procs :
          (proc[p].op = "verifyQuestCompletion" /\ proc'[p] # proc[p])
          => /\ (participants' # participants \/ activities' # activities)
                => (proc'[p].committed /\ proc'[p].pc = "selectAddress")
             /\ dispatches' # dispatches => proc[p].committed]_vars

C10_Witness ==
  \E p \in Procs :
    /\ Finished(p, "verifyQuestCompletion")
    /\ proc[p].outcome = "InternalError"
    /\ proc[p].participantStatus = "submitted"
    /\ StatusOf(participants[<<proc[p].id, proc[p].participantId>>]) = "submitted"
    /\ ActivityCount(proc[p].participantId, "quest_verified", proc[p].id) = 0
    /\ DispatchCount(proc[p].id, proc[p].participantId) = 0


\* C11: every user holds at most one grant row of the 'first quest
\* completed' achievement in every reachable state, also when two
\* verifications of that user's participations in different quests run
\* concurrently
C11_AtMostOneGrant ==
  \A u \in Users : CopiesIn(<<u, achievementId>>, achievements) <= 1

\* two verifications of one user on different quests both counted one
\* verified participation; one inserted the grant and the other has answered
C11_Witness ==
  \E p \in Procs, o \in Procs :
    /\ p # o
    /\ proc[p].op = "verifyQuestCompletion" /\ proc[o].op = "verifyQuestCompletion"
    /\ proc[p].participantId = proc[o].participantId
    /\ proc[p].id # proc[o].id
    /\ proc[p].granted /\ proc[p].verifiedQuestsCount = 1
    /\ proc[o].verifiedQuestsCount = 1 /\ proc[o].pc = "done"

\* C12: once the transaction of a verification has committed, the steps that
\* follow (the address lookup and the reward dispatch, whether it succeeds,
\* throws or is skipped) change no participation row, no activity record and
\* no grant, and the invocation answers Success.
C12_DispatchNeverFailsVerify ==
  [][\A p \in Procs :
       (/\ proc[p].op = "verifyQuestCompletion"
        /\ proc[p].committed
        /\ proc[p].pc \in {"selectAddress", "distribute"}
        /\ proc'[p] # proc[p])
       => /\ UNCHANGED <<participants, activities, achievements>>
          /\ proc'[p].committed
          /\ proc'[p].outcome \in {"none", "Success"}
          /\ proc'[p].pc = "done" => proc'[p].outcome = "Success"]_vars

\* a verification whose dispatch threw has answered Success and the row is
\* verified
C12_Witness ==
  \E p \in Procs :
    /\ Finished(p, "verifyQuestCompletion")
    /\ proc[p].committed
    /\ proc[p].distributed = "failed"
    /\ proc[p].outcome = "Success"
    /\ StatusOf(participants[<<proc[p].id, proc[p].participantId>>]) = "verified"

\* C13: the Reward Distributor is called only by a verification whose
\* transaction has committed, at the step after its address lookup; an
\* invocation whose transaction was rolled back has made no call.
C13_DispatchOnlyAfterCommit ==
  /\ [](\A p \in Procs :
          (proc[p].pc = "distribute" \/ proc[p].distributed # "none")
          => proc[p].op = "verifyQuestCompletion" /\ proc[p].committed)
  /\ [][dispatches' # dispatches
        => \E p \in Procs :
             /\ proc[p].op = "verifyQuestCompletion"
             /\ proc[p].committed
             /\ proc[p].pc = "distribute"
             /\ proc'[p].distributed # "none"
             /\ DispatchCount(proc[p].id, proc[p].participantId)' =
                  DispatchCount(proc[p].id, proc[p].participantId) + 1
             /\ BagCardinality(dispatches') = BagCardinality(dispatches) + 1]_vars

\* a committed verification has called the distributor, once
C13_Witness ==
  \E p \in Procs :
    /\ Finished(p, "verifyQuestCompletion")
    /\ proc[p].committed
    /\ proc[p].distributed = "paid"
    /\ DispatchCount(proc[p].id, proc[p].participantId) = 1

\* the amount the reward_amount column of quest q stands for
QuestReward(q) ==
  IF quests[q].reward_amount = RewardAmountText THEN RewardAmount ELSE OtherRewardAmount

\* C14: a verification of a submitted participant who has an address sets the
\* row to verified and appends exactly one quest_verified record at its
\* COMMIT, then calls the distributor exactly once, with that participant's
\* address and the reward amount held by the quest's row; barring a failure
\* of the address lookup, a Success for such a participant comes with that call.
C14_VerifyWritesAndDispatches ==
  /\ [][\A p \in Procs :
          (proc[p].op = "verifyQuestCompletion" /\ proc'[p] # proc[p])
          => LET q == proc[p].id
                 u == proc[p].participantId IN
             /\ (proc[p].pc = "COMMIT" /\ proc'[p].committed)
                => /\ proc[p].participantStatus = "submitted"
                   /\ StatusOf(participants'[<<q, u>>]) = "verified"
                   /\ ActivityCount(u, "quest_verified", q)' =
                        ActivityCount(u, "quest_verified", q) + 1
             /\ proc[p].pc = "distribute"
                => /\ aptos_address(u) # NoAddress
                   /\ proc[p].distributed = "none"
                   /\ proc'[p].distributed # "none"
                   /\ dispatches' = dispatches (+)
                        SetToBag({[address |-> aptos_address(u),
                                   amount |-> QuestReward(q),
                                   questId |-> q, participantId |-> u]})]_vars
  /\ [](\A p \in Procs :
          (/\ Ran(p, "verifyQuestCompletion")
           /\ proc[p].outcome = "Success"
           /\ aptos_address(proc[p].participantId) # NoAddress)
          => proc[p].distributed # "none")

\* a verification of the quest with the other reward amount has answered
\* Success and the distributor was called with that amount
C14_Witness ==
  \E p \in Procs :
    /\ Ran(p, "verifyQuestCompletion")
    /\ proc[p].outcome = "Success"
    /\ proc[p].distributed = "paid"
    /\ StatusOf(participants[<<proc[p].id, proc[p].participantId>>]) = "verified"
    /\ ActivityCount(proc[p].participantId, "quest_verified", proc[p].id) = 1
    /\ BagIn([address |-> aptos_address(proc[p].participantId),
              amount |-> OtherRewardAmount,
              questId |-> proc[p].id, participantId |-> proc[p].participantId],
             dispatches)
    /\ DispatchCount(proc[p].id, proc[p].participantId) = 1

\* C15: a verification of a participant who has no linked address sets the
\* row to verified at its COMMIT and answers Success at the address lookup
\* without calling the distributor: no dispatch is ever recorded for that
\* participant.
C15_NoAddressNoDispatch ==
  /\ [](\A p \in Procs :
          (/\ proc[p].op = "verifyQuestCompletion"
           /\ aptos_address(proc[p].participantId) = NoAddress)
          => /\ proc[p].pc # "distribute"
             /\ proc[p].distributed = "none"
             /\ \A q \in QuestIds : DispatchCount(q, proc[p].participantId) = 0)
  /\ [][\A p \in Procs :
          (/\ proc[p].op = "verifyQuestCompletion"
           /\ aptos_address(proc[p].participantId) = NoAddress
           /\ proc'[p] # proc[p])
          => /\ (proc[p].pc = "COMMIT" /\ proc'[p].committed)
                => StatusOf(participants'[<<proc[p].id, proc[p].participantId>>]) = "verified"
             /\ proc[p].pc = "selectAddress"
                => /\ proc'[p].pc = "done"
                   /\ proc'[p].outcome = "Success"
                   /\ UNCHANGED <<participants, dispatches>>]_vars

\* a participant without an address has been verified: Success, the row is
\* verified and nothing was dispatched
C15_Witness ==
  \E p \in Procs :
    /\ Ran(p, "verifyQuestCompletion")
    /\ proc[p].outcome = "Success"
    /\ proc[p].committed
    /\ aptos_address(proc[p].participantId) = NoAddress
    /\ StatusOf(participants[<<proc[p].id, proc[p].participantId>>]) = "verified"
    /\ BagCardinality(dispatches) = 0

\* C16: a verification that finds the row already verified answers
\* InvalidState (barring a data-layer failure) and has no effect: it commits
\* nothing, inserts no grant, appends no activity record and makes no
\* dispatch.
C16_RetryVerifiedInvalidState ==
  /\ [](\A p \in Procs :
          (Ran(p, "verifyQuestCompletion") /\ proc[p].participantStatus = "verified")
          => /\ proc[p].outcome = "InvalidState"
             /\ ~proc[p].committed
             /\ ~proc[p].granted
             /\ proc[p].distributed = "none")
  /\ [][\A p \in Procs :
          (/\ proc'[p].op = "verifyQuestCompletion"
           /\ proc'[p].participantStatus = "verified"
           /\ proc'[p] # proc[p])
          => UNCHANGED <<participants, activities, achievements, dispatches>>]_vars

\* a second verification of a verified row has answered InvalidState; the
\* row, the one quest_verified record and the one grant are as the first
\* verification left them
C16_Witness ==
  \E p \in Procs :
    /\ Ran(p, "verifyQuestCompletion")
    /\ proc[p].participantStatus = "verified"
    /\ proc[p].outcome = "InvalidState"
    /\ StatusOf(participants[<<proc[p].id, proc[p].participantId>>]) = "verified"
    /\ ActivityCount(proc[p].participantId, "quest_verified", proc[p].id) = 1
    /\ CopiesIn(<<proc[p].participantId, achievementId>>, achievements) = 1
    /\ DispatchCount(proc[p].id, proc[p].participantId) <= 1

\* C17: a verification is atomic.  In every state a verified row has its
\* quest_verified record, a user with a quest_verified record has the grant,
\* and every grant has its achievement_unlocked record; a verification that
\* ends in a data-layer error has changed no row, no record and no grant.
C17_VerifyAtomic ==
  /\ [](\A k \in Pairs :
          LET q == k[1]
              u == k[2] IN
          /\ StatusOf(participants[k]) = "verified"
             => ActivityCount(u, "quest_verified", q) >= 1
          /\ ActivityCount(u, "quest_verified", q) >= 1
             => CopiesIn(<<u, achievementId>>, achievements) >= 1
          /\ CopiesIn(<<u, achievementId>>, achievements) =
               ActivityCount(u, "achievement_unlocked", 0))
  /\ [][\A p \in Procs :
          (/\ proc[p].op = "verifyQuestCompletion"
           /\ proc'[p] # proc[p]
           /\ proc'[p].outcome \in {"InternalError", "NoResponse"})
          => UNCHANGED <<participants, activities, achievements>>]_vars

\* a verification failed after its UPDATE and its count: the row is still
\* submitted and there is no quest_verified record and no grant
C17_Witness ==
  \E p \in Procs :
    /\ Finished(p, "verifyQuestCompletion")
    /\ proc[p].faulted
    /\ proc[p].outcome = "InternalError"
    /\ proc[p].verifiedQuestsCount = 1
    /\ StatusOf(participants[<<proc[p].id, proc[p].participantId>>]) = "submitted"
    /\ ActivityCount(proc[p].participantId, "quest_verified", proc[p].id) = 0
    /\ CopiesIn(<<proc[p].participantId, achievementId>>, achievements) = 0

\* C18: a verification that commits inserts the grant and its
\* achievement_unlocked record exactly when its count of the participant's
\* verified participations, the one it has just written included, is 1 and
\* it found no grant; for any other count, or with a grant present, it
\* inserts neither.
C18_GrantIffFirstVerified ==
  /\ [](\A p \in Procs :
          (proc[p].op = "verifyQuestCompletion" /\ proc[p].committed)
          => (proc[p].granted <=>
                (proc[p].verifiedQuestsCount = 1 /\ ~proc[p].existingAchievement)))
  /\ [][\A p \in Procs :
          (proc[p].op = "verifyQuestCompletion" /\ proc'[p] # proc[p])
          => LET u == proc[p].participantId
                 first == proc[p].verifiedQuestsCount = 1 /\ ~proc[p].existingAchievement
                 n == IF first THEN 1 ELSE 0 IN
             /\ (proc[p].pc = "count" /\ proc'[p].pc # "done")
                => proc'[p].verifiedQuestsCount =
                     Cardinality({q \in QuestIds :
                                    \/ q = proc[p].id
                                    \/ StatusOf(participants[<<q, u>>]) = "verified"})
             /\ (proc[p].pc = "selectAchievement" /\ proc'[p].pc # "done")
                => (proc'[p].existingAchievement <=>
                      CopiesIn(<<u, achievementId>>, achievements) >= 1)
             /\ (proc[p].pc = "COMMIT" /\ proc'[p].committed)
                => /\ CopiesIn(<<u, achievementId>>, achievements') =
                        CopiesIn(<<u, achievementId>>, achievements) + n
                   /\ ActivityCount(u, "achievement_unlocked", 0)' =
                        ActivityCount(u, "achievement_unlocked", 0) + n]_vars

\* a verification that counted two verified participations has committed
\* without inserting a grant: the user keeps the one grant of the first
C18_Witness ==
  \E p \in Procs :
    /\ Ran(p, "verifyQuestCompletion")
    /\ proc[p].outcome = "Success"
    /\ proc[p].verifiedQuestsCount = 2
    /\ ~proc[p].granted
    /\ CopiesIn(<<proc[p].participantId, achievementId>>, achievements) = 1
    /\ ActivityCount(proc[p].participantId, "achievement_unlocked", 0) = 1

\* C19: the INSERT of a join that fails on the unique constraint is answered
\* Conflict, one that fails with any other data-layer error is answered
\* InternalError, never the other way round, and neither leaves a new row.
C19_JoinErrorsToldApart ==
  [][\A p \in Procs :
       (/\ proc[p].op = "joinQuest"
        /\ proc[p].pc = "insertParticipant"
        /\ proc'[p] # proc[p])
       => LET code == InsertParticipantError(proc[p].id, proc[p].user) IN
          /\ proc'[p].pc = "done"
          /\ (~proc'[p].faulted /\ code = "23505")
             => proc'[p].outcome = "Conflict" /\ UNCHANGED participants
          /\ proc'[p].faulted
             => proc'[p].outcome = "InternalError" /\ UNCHANGED participants
          /\ proc'[p].outcome = "Conflict" => (code = "23505" /\ ~proc'[p].faulted)
          /\ proc'[p].outcome = "InternalError" => proc'[p].faulted]_vars

\* the INSERT of a join failed with an error other than the unique
\* violation: InternalError, and the pair has no row
C19_Witness ==
  \E p \in Procs :
    /\ Finished(p, "joinQuest")
    /\ proc[p].faulted
    /\ proc[p].questCreatorId # NoUser
    /\ proc[p].outcome = "InternalError"
    /\ participants[<<proc[p].id, proc[p].user>>] = NoRow

\* C20: a join by a user who is not the creator and has no row for an
\* existing quest answers Success and leaves the row with status joined; a
\* join to a quest that does not exist answers NotFound and inserts no row
\* (barring a data-layer failure of the query).
C20_JoinSuccessOrNotFound ==
  [][\A p \in Procs :
       (proc[p].op = "joinQuest" /\ proc'[p] # proc[p] /\ ~proc'[p].faulted)
       => LET k == <<proc[p].id, proc[p].user>> IN
          /\ (proc[p].pc = "selectQuest" /\ quests[proc[p].id] = NoRow)
             => /\ proc'[p].pc = "done"
                /\ proc'[p].outcome = "NotFound"
                /\ UNCHANGED participants
          /\ (proc[p].pc = "insertParticipant" /\ participants[k] = NoRow)
             => /\ quests[proc[p].id] # NoRow
                /\ quests[proc[p].id].creator_id # proc[p].user
                /\ proc'[p].pc = "done"
                /\ proc'[p].outcome = "Success"
                /\ participants' = [participants EXCEPT ![k] =
                                      [status |-> "joined", proof |-> NoProof, rows |-> 1]]]_vars

\* a join has answered Success and its row is there, joined
C20_Witness ==
  \E p \in Procs :
    /\ Finished(p, "joinQuest")
    /\ proc[p].outcome = "Success"
    /\ quests[proc[p].id].creator_id # proc[p].user
    /\ participants[<<proc[p].id, proc[p].user>>] =
         [status |-> "joined", proof |-> NoProof, rows |-> 1]

\* C21: a submit-completion that read status joined sets, at its COMMIT, the
\* row to submitted with the proof it was given and appends exactly one
\* quest_submitted record, in that one step; a submit-completion by a user
\* with no row for the quest answers Forbidden (barring a data-layer
\* failure) and writes nothing.
C21_SubmitWritesOrForbidden ==
  [][\A p \in Procs :
       (proc[p].op = "completeQuest" /\ proc'[p] # proc[p])
       => LET q == proc[p].id
              u == proc[p].user IN
          /\ (proc[p].pc = "COMMIT" /\ proc'[p].committed)
             => /\ proc[p].participantStatus = "joined"
                /\ proc'[p].outcome = "Success"
                /\ participants'[<<q, u>>].status = "submitted"
                /\ participants'[<<q, u>>].proof = proc[p].proof
                /\ ActivityCount(u, "quest_submitted", q)' =
                     ActivityCount(u, "quest_submitted", q) + 1
                /\ BagCardinality(activities') = BagCardinality(activities) + 1
          /\ ~(proc[p].pc = "COMMIT" /\ proc'[p].committed)
             => UNCHANGED <<participants, activities>>
          /\ (/\ proc[p].pc = "selectParticipant"
              /\ participants[<<q, u>>] = NoRow
              /\ ~proc'[p].faulted)
             => proc'[p].pc = "done" /\ proc'[p].outcome = "Forbidden"]_vars

\* a submit-completion has committed: the row is submitted with its proof and
\* the log has the one quest_submitted record
C21_Witness ==
  \E p \in Procs :
    /\ Ran(p, "completeQuest")
    /\ proc[p].outcome = "Success"
    /\ participants[<<proc[p].id, proc[p].user>>].status = "submitted"
    /\ participants[<<proc[p].id, proc[p].user>>].proof = proc[p].proof
    /\ ActivityCount(proc[p].user, "quest_submitted", proc[p].id) = 1

\* a request of an authenticated caller whose input is malformed
Malformed(r) ==
  /\ r.user # NoUser
  /\ \/ r.op = "completeQuest" /\ r.proof = NoProof
     \/ r.op = "verifyQuestCompletion" /\ r.participantId = NoUser

\* C22: a submit-completion without a proof and a verify without a
\* participant identifier, sent by an authenticated caller, are answered
\* ValidationError at once: no connection is acquired, no transaction is
\* begun and no table changes.
C22_MalformedRejectedEarly ==
  /\ [](\A p \in Procs :
          Malformed(proc[p])
          => /\ proc[p].pc = "done"
             /\ proc[p].outcome = "ValidationError"
             /\ proc[p].client = "none"
             /\ proc[p].transaction = "none")
  /\ [][\A p \in Procs :
          (Malformed(proc[p]) \/ Malformed(proc'[p])) /\ proc'[p] # proc[p]
          => UNCHANGED <<quests, participants, activities, achievements, dispatches>>]_vars

\* a verify without a participant identifier has been turned away
C22_Witness ==
  \E p \in Procs :
    /\ Malformed(proc[p])
    /\ proc[p].op = "verifyQuestCompletion"
    /\ proc[p].outcome = "ValidationError"
    /\ proc[p].client = "none"

\* C23: a submit-completion or verify that acquired a connection releases it
\* on every exit path, and only after its transaction was committed or
\* rolled back: no handler ends with the connection held or with its
\* transaction still open.
C23_ReleaseAfterTransactionEnd ==
  \A p \in Procs :
    proc[p].pc = "done"
    => /\ proc[p].client # "held"
       /\ proc[p].transaction # "open"

\* C24: every invocation answers its caller; when the data layer fails while
\* the connection is acquired, in a query of the transaction or in the
\* ROLLBACK itself, the answer is InternalError and nothing is committed.
C24_FailureAnswersInternalError ==
  \A p \in Procs :
    (proc[p].pc = "done" /\ proc[p].faulted /\ ~proc[p].committed)
    => proc[p].outcome = "InternalError"

\* number of QuestJoinedEvents emitted for participant a of quest q
JoinedEvents(q, a) ==
  Cardinality({i \in 1..Len(quest_store.quest_joined_events) :
                 quest_store.quest_joined_events[i] = [quest_id |-> q, participant |-> a]})

\* number of QuestCompletedEvents emitted for completer a of quest q
CompletedEventsIn(store, q, a) ==
  Cardinality({i \in 1..Len(store.quest_completed_events) :
                 /\ store.quest_completed_events[i].quest_id = q
                 /\ store.quest_completed_events[i].completer = a})

CompletedEvents(q, a) == CompletedEventsIn(quest_store, q, a)

\* C25: on-chain join_quest executes only when the quest exists, is active,
\* the joiner is not its creator and has no entry in its participants table;
\* it then sets the joiner's status to "joined" and emits one
\* QuestJoinedEvent.  Otherwise it aborts with code 1, 2, 3 or 4, the first
\* condition that fails, and the store and the events are unchanged.
C25_JoinQuestOnChain ==
  [][(txn'.function = "join_quest" /\ txn' # txn)
     => LET q == txn'.quest_id
            a == txn'.sender
            exists == q \in DOMAIN quest_store.quests
            active == exists /\ quest_store.quests[q].is_active
            stranger == active /\ quest_store.quests[q].creator # a
            fresh == stranger /\ a \notin DOMAIN quest_store.quests[q].participants IN
        /\ txn'.abort_code = (IF ~exists THEN 1 ELSE IF ~active THEN 2
                              ELSE IF ~stranger THEN 3 ELSE IF ~fresh THEN 4 ELSE 0)
        /\ ~fresh => quest_store' = quest_store
        /\ fresh => /\ quest_store'.quests[q].participants =
                         quest_store.quests[q].participants @@ (a :> "joined")
                    /\ quest_store'.quest_joined_events =
                         Append(quest_store.quest_joined_events,
                                [quest_id |-> q, participant |-> a])
                    /\ \A o \in DOMAIN quest_store.quests \ {q} :
                         quest_store'.quests[o] = quest_store.quests[o]
                    /\ quest_store'.quest_completed_events =
                         quest_store.quest_completed_events]_vars

\* a join has executed and later joins of the creator and of the same joiner
\* have aborted: the joiner is "joined" with one event, the creator has no entry
C25_Witness ==
  /\ txn.function = "join_quest"
  /\ txn.abort_code = E_CREATOR_CANNOT_JOIN
  /\ \E a \in Addresses :
       /\ a \in DOMAIN quest_store.quests[txn.quest_id].participants
       /\ quest_store.quests[txn.quest_id].participants[a] = "joined"
       /\ JoinedEvents(txn.quest_id, a) = 1
  /\ txn.sender \notin DOMAIN quest_store.quests[txn.quest_id].participants

\* C26: on-chain complete_quest moves the caller's status from "joined" to
\* "submitted" and emits one QuestCompletedEvent; for a caller who is not a
\* participant it aborts with code 5, for one who has submitted with code 6,
\* changing nothing; so each (quest, participant) has at most one
\* QuestCompletedEvent.
C26_CompleteQuestOnChain ==
  /\ [](\A q \in DOMAIN quest_store.quests, a \in Addresses :
          /\ CompletedEvents(q, a) <= 1
          /\ CompletedEvents(q, a) = 1
             <=> (/\ a \in DOMAIN quest_store.quests[q].participants
                  /\ quest_store.quests[q].participants[a] = "submitted"))
  /\ [][(txn'.function = "complete_quest" /\ txn' # txn
         /\ txn'.quest_id \in DOMAIN quest_store.quests)
        => LET q == txn'.quest_id
               a == txn'.sender
               participants_q == quest_store.quests[q].participants IN
           IF a \notin DOMAIN participants_q
           THEN txn'.abort_code = 5 /\ quest_store' = quest_store
           ELSE IF participants_q[a] = "joined"
           THEN /\ txn'.abort_code = 0
                /\ quest_store'.quests[q].participants[a] = "submitted"
                /\ CompletedEventsIn(quest_store', q, a) = CompletedEvents(q, a) + 1
                /\ Len(quest_store'.quest_completed_events) =
                     Len(quest_store.quest_completed_events) + 1
           ELSE txn'.abort_code = 6 /\ quest_store' = quest_store]_vars

\* a second complete_quest of a participant has aborted with code 6 and the
\* one QuestCompletedEvent is still the only one
C26_Witness ==
  /\ txn.function = "complete_quest"
  /\ txn.abort_code = E_COMPLETION_ALREADY_SUBMITTED
  /\ quest_store.quests[txn.quest_id].participants[txn.sender] = "submitted"
  /\ CompletedEvents(txn.quest_id, txn.sender) = 1

\* C27: of two verifications of one participant on two different quests
\* that run concurrently, the later one finds the grant present and attempts
\* no second insert, and both answer Success: no two such handlers are both
\* at or past the INSERT of the grant, and a verification that passed its
\* guards and met no data-layer failure has not answered anything but Success.
C27_ConcurrentVerifiesBothSucceed ==
  /\ \A p \in Procs : \A o \in Procs \ {p} :
       (/\ proc[p].op = "verifyQuestCompletion" /\ proc[o].op = "verifyQuestCompletion"
        /\ proc[p].participantId = proc[o].participantId
        /\ proc[p].id # proc[o].id)
       => ~(/\ (proc[p].pc = "insertAchievement" \/ proc[p].txGrant)
            /\ (proc[o].pc = "insertAchievement" \/ proc[o].txGrant))
  /\ \A p \in Procs :
       (/\ Finished(p, "verifyQuestCompletion")
        /\ proc[p].participantStatus = "submitted"
        /\ ~proc[p].faulted)
       => proc[p].outcome = "Success"

C29_TransactionEnds ==
  \A p \in Procs :
    (proc[p].transaction = "open")
    ~> (proc[p].transaction # "open" \/ proc[p].pc = "done")

\* C30: every participation row whose status is submitted or verified holds
\* a proof of completion, and a submit-completion that has answered Success
\* for the pair finds the proof it gave in the row.
C30_ProofIsTheSubmittedOne ==
  /\ \A k \in Pairs :
       StatusOf(participants[k]) \in {"submitted", "verified"}
       => participants[k].proof # NoProof
  /\ \A p \in Procs :
       (Finished(p, "completeQuest") /\ proc[p].outcome = "Success")
       => participants[<<proc[p].id, proc[p].user>>].proof = proc[p].proof

\* C31: the activity log and the achievement grants only grow, and what is
\* added to the log is added by the COMMIT of a submit-completion (its
\* quest_submitted record), or by the COMMIT of a verification (its
\* quest_verified record, and an achievement_unlocked record exactly with a
\* grant inserted by the same COMMIT).
C31_LogAndGrantsAppendOnly ==
  [][/\ activities \sqsubseteq activities'
     /\ achievements \sqsubseteq achievements'
     /\ activities' # activities =>
          \E p \in Procs :
            /\ proc[p].transaction = "open"
            /\ proc'[p].transaction = "committed"
            /\ \A a \in BagToSet(activities' (-) activities) :
                 \/ /\ a.activity_type = "quest_submitted"
                    /\ proc[p].op = "completeQuest"
                    /\ a.user_id = proc[p].user
                    /\ a.questId = proc[p].id
                 \/ /\ a.activity_type = "quest_verified"
                    /\ proc[p].op = "verifyQuestCompletion"
                    /\ a.user_id = proc[p].participantId
                    /\ a.questId = proc[p].id
                 \/ /\ a.activity_type = "achievement_unlocked"
                    /\ proc[p].op = "verifyQuestCompletion"
                    /\ achievements' =
                         achievements (+) SetToBag({<<a.user_id, achievementId>>})]_vars

C31_Witness ==
  \E u \in Users :
    /\ \E a \in BagToSet(activities) :
         a.activity_type = "quest_submitted" /\ a.user_id = u
    /\ \E a \in BagToSet(activities) :
         a.activity_type = "quest_verified" /\ a.user_id = u
    /\ \E a \in BagToSet(activities) :
         a.activity_type = "achievement_unlocked" /\ a.user_id = u
    /\ BagIn(<<u, achievementId>>, achievements)

\* C34: a verification that meets no data-layer failure answers with the
\* first guard that fails, in the order quest missing (NotFound), requester
\* not the creator (Forbidden), participation row missing, status not
\* submitted (InvalidState); a requester who is not the creator gets
\* Forbidden whatever the participant's row holds, and the row is not read
\* for them.
C34_VerifyGuardOrder ==
  \A p \in Procs :
    Ran(p, "verifyQuestCompletion") /\ proc[p].participantId # NoUser
    => /\ proc[p].outcome =
            IF proc[p].questCreatorId = NoUser THEN "NotFound"
            ELSE IF proc[p].questCreatorId # proc[p].user THEN "Forbidden"
            ELSE IF proc[p].participantStatus = NoStatus THEN verifyMissingParticipant
            ELSE IF proc[p].participantStatus # "submitted" THEN "InvalidState"
            ELSE "Success"
       /\ (proc[p].questCreatorId # NoUser
           => proc[p].questCreatorId = quests[proc[p].id].creator_id)
       /\ (proc[p].questCreatorId # proc[p].user
           => proc[p].participantStatus = NoStatus)

C34_Witness ==
  /\ \E p \in Procs :
       /\ Ran(p, "verifyQuestCompletion")
       /\ proc[p].outcome = "Forbidden"
       /\ StatusOf(participants[<<proc[p].id, proc[p].participantId>>]) = "submitted"
  /\ \E o \in Procs :
       /\ Ran(o, "verifyQuestCompletion")
       /\ proc[o].outcome = "Forbidden"
       /\ participants[<<proc[o].id, proc[o].participantId>>] = NoRow

\* C35: a join, a submit-completion or a verification invoked without an
\* authenticated user is answered Unauthorized in the step that takes the
\* request up, with no connection taken, no transaction begun, no query
\* sent and every table left as it was.
C35_UnauthenticatedRejectedEarly ==
  /\ [](\A p \in Procs :
          (/\ proc[p].op \in {"joinQuest", "completeQuest", "verifyQuestCompletion"}
           /\ proc[p].user = NoUser)
          => /\ proc[p].pc = "done"
             /\ proc[p].outcome = "Unauthorized"
             /\ proc[p].client = "none"
             /\ proc[p].transaction = "none"
             /\ ~proc[p].committed)
  /\ [][\A p \in Procs :
          (/\ proc[p].pc = "idle"
           /\ proc'[p].op \in {"joinQuest", "completeQuest", "verifyQuestCompletion"}
           /\ proc'[p].user = NoUser)
          => <<quests, participants, activities, achievements, dispatches>>' =
               <<quests, participants, activities, achievements, dispatches>>]_vars

C35_Witness ==
  /\ \E p \in Procs : proc[p].op = "joinQuest" /\ proc[p].outcome = "Unauthorized"
  /\ \E o \in Procs :
       /\ proc[o].op \in {"completeQuest", "verifyQuestCompletion"}
       /\ proc[o].outcome = "Unauthorized"

\* C38: on-chain quest ids are unique and sequential: next_quest_id is the
\* number of quests created, the quests hold the ids 0 .. next_quest_id - 1
\* in the order of their QuestCreatedEvents, a create_quest adds the quest
\* with id next_quest_id and overwrites none, and join_quest and
\* complete_quest change neither next_quest_id nor the id, creator or
\* reward_amount of any quest.
C38_ChainIdsSequential ==
  /\ [](/\ DOMAIN quest_store.quests = 0..(quest_store.next_quest_id - 1)
        /\ Len(quest_store.quest_created_events) = quest_store.next_quest_id
        /\ \A i \in DOMAIN quest_store.quests :
             /\ quest_store.quests[i].id = i
             /\ quest_store.quest_created_events[i + 1].quest_id = i)
  /\ [][/\ \A i \in DOMAIN quest_store.quests :
             /\ i \in DOMAIN quest_store'.quests
             /\ quest_store'.quests[i].id = quest_store.quests[i].id
             /\ quest_store'.quests[i].creator = quest_store.quests[i].creator
             /\ quest_store'.quests[i].reward_amount = quest_store.quests[i].reward_amount
             /\ (txn'.function = "create_quest"
                 => quest_store'.quests[i] = quest_store.quests[i])
        /\ IF txn'.function = "create_quest"
           THEN /\ quest_store'.next_quest_id = quest_store.next_quest_id + 1
                /\ DOMAIN quest_store'.quests =
                     DOMAIN quest_store.quests \cup {quest_store.next_quest_id}
                /\ txn'.quest_id = quest_store.next_quest_id
           ELSE /\ quest_store'.next_quest_id = quest_store.next_quest_id
                /\ DOMAIN quest_store'.quests = DOMAIN quest_store.quests]_vars

C38_Witness ==
  /\ quest_store.next_quest_id = MaxChainQuests
  /\ \E a \in Addresses :
       /\ contains(quest_store.quests[1].participants, a)
       /\ quest_store.quests[1].participants[a] = "submitted"

\* C39: on chain every participant status is "joined" or "submitted", a
\* participant once entered stays entered, a "submitted" status stays
\* "submitted", and the is_active flag of every quest is true.
C39_ChainStatusesAndActive ==
  /\ [](\A q \in DOMAIN quest_store.quests :
          /\ quest_store.quests[q].is_active
          /\ \A a \in DOMAIN quest_store.quests[q].participants :
               quest_store.quests[q].participants[a] \in {"joined", "submitted"})
  /\ [][\A q \in DOMAIN quest_store.quests :
          \A a \in DOMAIN quest_store.quests[q].participants :
            /\ q \in DOMAIN quest_store'.quests
            /\ a \in DOMAIN quest_store'.quests[q].participants
            /\ (quest_store.quests[q].participants[a] = "submitted"
                => quest_store'.quests[q].participants[a] = "submitted")]_vars

C39_Witness ==
  \E q \in DOMAIN quest_store.quests :
    /\ txn.function = "complete_quest"
    /\ txn.abort_code = E_COMPLETION_ALREADY_SUBMITTED
    /\ txn.quest_id = q
    /\ quest_store.quests[q].participants[txn.sender] = "submitted"
    /\ \E o \in DOMAIN quest_store.quests :
         \E a \in DOMAIN quest_store.quests[o].participants :
           quest_store.quests[o].participants[a] = "joined"

\* requests that C32 lists as leaving the participations alone
FrameOps ==
  {"createQuest", "updateQuest", "joinQuest", "getAllQuests", "getQuestById",
   "getQuestParticipants", "getNearbyQuests"}

\* C32: a step of createQuest, updateQuest, getAllQuests, getQuestById,
\* getQuestParticipants or getNearbyQuests leaves every participation row in
\* place with its status and proof, a step of joinQuest does so for every
\* pair but its own, and where neither a submit-completion nor a
\* verification runs no row that stays has its status or proof changed.
C32_OnlySubmitAndVerifyChangeStatus ==
  [][/\ \A k \in Pairs :
          (participants[k] # NoRow /\ participants'[k] # NoRow)
          => /\ participants'[k].status = participants[k].status
             /\ participants'[k].proof = participants[k].proof
     /\ \A p \in Procs :
          (proc'[p] # proc[p] /\ proc'[p].op \in FrameOps)
          => \A k \in Pairs :
               (participants[k] # NoRow
                /\ ~(proc'[p].op = "joinQuest" /\ k = <<proc'[p].id, proc'[p].user>>))
               => participants'[k] = participants[k]]_vars

C32_Witness ==
  /\ quests[1] \notin {NoRow, Deleted}
  /\ quests[1].title = "t1"
  /\ quests[QuestRows] \notin {NoRow, Deleted}
  /\ \E u \in Users : participants[<<QuestRows, u>>] # NoRow
  /\ \E u \in Users :
       /\ participants[<<1, u>>] # NoRow
       /\ participants[<<1, u>>].status = "submitted"
       /\ participants[<<1, u>>].proof = "pA"
  /\ \E p \in Procs :
       /\ Finished(p, "getQuestParticipants")
       /\ proc[p].outcome = "Success"

\* C33: updateQuest or deleteQuest by a user who is not the creator of the
\* quest is answered Forbidden and writes nothing; a quest row changes only
\* in a step of an updateQuest or deleteQuest of its creator, so no join, no
\* submit-completion and no verification changes one; and creator_id never
\* changes.
C33_QuestChangedOnlyByCreator ==
  /\ [](\A p \in Procs :
          (/\ proc[p].op \in {"updateQuest", "deleteQuest"}
           /\ proc[p].pc = "done"
           /\ ~proc[p].faulted
           /\ proc[p].questCreatorId # NoUser
           /\ proc[p].questCreatorId # proc[p].user)
          => /\ proc[p].outcome = "Forbidden"
             /\ ~proc[p].committed)
  /\ [][\A q \in QuestIds :
          quests'[q] # quests[q]
          => /\ quests[q] \notin {NoRow, Deleted}
             /\ \E p \in Procs :
                  /\ proc[p].op \in {"updateQuest", "deleteQuest"}
                  /\ proc[p].id = q
                  /\ proc[p].user = quests[q].creator_id
                  /\ proc'[p].pc = "done"
                  /\ proc'[p].committed
             /\ (quests'[q] # Deleted => quests'[q].creator_id = quests[q].creator_id)]_vars

C33_Witness ==
  /\ \E p \in Procs :
       /\ Finished(p, "updateQuest")
       /\ proc[p].outcome = "Forbidden"
       /\ proc[p].user \in Users
       /\ participants[<<proc[p].id, proc[p].user>>] # NoRow
       /\ quests[proc[p].id] \notin {NoRow, Deleted}
       /\ quests[proc[p].id].title = "t0"
  /\ \E o \in Procs :
       /\ Finished(o, "deleteQuest")
       /\ proc[o].outcome = "Forbidden"
       /\ proc[o].user \in Users
       /\ participants[<<proc[o].id, proc[o].user>>] # NoRow

====
